---------------------------- MODULE Spec2Model ----------------------------
(***************************************************************************)
(* Model of the PNM, TIFF and PostScript coders of ImageMagick 6.5.4-10.   *)
(*                                                                         *)
(*   SpecRead   the OpenMP-parallel raw decode loops of ReadPNMImage       *)
(*              (coders/pnm.c, formats P4, P5, P6, P7, Pf)                 *)
(*   SpecAscii  the ASCII PGM/PPM decoders of ReadPNMImage (P2, P3):       *)
(*              header, scale table, ConstrainPixel                        *)
(*   SpecWrite  the row loops of WritePNMImage and WriteTIFFImage and      *)
(*              the 2048-byte staging buffer of WritePNMImage (P1..P3)     *)
(*              and WritePSImage                                           *)
(*   SpecPam       the index queue of the CMYK rows of ReadPNMImage, P7    *)
(*   SpecCodec     one PAM pixel written by WritePNMImage and read back    *)
(*   SpecExtent    the row extent of the raw decoders of ReadPNMImage      *)
(*   SpecBilevel   one P1 row written and read back                        *)
(*   SpecPfm       the PFM scale line and rows, written and read back      *)
(*   SpecTiffAlpha the extra samples and the alpha of the TIFF coder       *)
(*   SpecQuantum   the QuantumInfo of ReadTIFFImage and the PFM coder      *)
(*   SpecPs        the pixel dumps of WritePSImage                         *)
(*   SpecType      image->type in the P6 decoder of ReadPNMImage           *)
(*   SpecRegistry  the Register and Unregister functions of the coders     *)
(*   SpecTile      TIFFWritePixels                                         *)
(*   SpecPpm       one P6 row of WritePNMImage                             *)
(*   SpecRgba      the RGBA raster decoders of ReadTIFFImage               *)
(*   SpecHandlers  the libtiff message handlers of the TIFF coder          *)
(*   SpecKey       the thread key of RegisterTIFFImage, UnregisterTIFFImage*)
(*                                                                         *)
(* The build modelled is the default Q16 one (QuantumRange = 65535) with   *)
(* MAGICKCORE_OPENMP_SUPPORT defined.                                      *)
(***************************************************************************)
EXTENDS Integers, Sequences, FiniteSets, TLC

\* ------------------------------------------------------------------ bounds

NumWorkers == 2
MaxRows == 2
Columns == 1
StreamSeed == 200
TableMax == 1000
HexRows == 512
HexCols == 40

\* ------------------------------------------------------- program constants

QuantumRange == 65535
MagickFalse == FALSE
MagickTrue == TRUE
NULL == "NULL"

Workers == 1..NumWorkers

VARIABLES
  \* ---- ReadPNMImage, raw decode loop
  format,      \* the format character after 'P'
  rows,        \* image->rows
  stream,      \* the blob: a sequence of bytes
  blobpos,     \* bytes of the blob consumed so far
  row,         \* the shared row counter
  status,      \* the shared status flag
  monitor,     \* progress_monitor != NULL and image->previous == NULL
  lock,        \* holder of critical section MagickCore_ReadPNMImage, 0 if free
  nexty,       \* next loop index y the dynamic schedule hands out
  pc,          \* each worker's position in the loop body
  rowreg,      \* each worker's register copy of row inside offset=row++
  offset,      \* each worker's local offset
  count,       \* each worker's local count
  pixels,      \* the raw row buffer GetQuantumPixels returns to each worker
  nexus,       \* the cache view region each worker has queued
  cache,       \* the pixel cache: image row -> decoded samples or NULL
  result,      \* what ReadPNMImage returns, NULL record before it returns
  \* ---- history of the decode loop
  assigned,    \* offsets in the order the critical section handed them out
  reads,       \* the bytes returned by each ReadBlob call, in call order
  readers,     \* the worker that made each ReadBlob call
  progress,    \* the row numbers passed to SetImageProgress, in call order
  cause,       \* the reasons status was set to MagickFalse
  \* ---- ReadPNMImage, ASCII decoders (P2, P3)
  max_value,   \* the maximum sample value the header declares
  apc,         \* position: "header", "case", "table", "pixels", "done", "rejected"
  scale,       \* the scale table; scaleSet says whether scale != NULL
  scaleSet,
  ti,          \* the loop index i that fills the table
  ay,          \* the row being decoded
  ax,          \* the pixels of row ay decoded so far
  stored,      \* the channels of the pixel stored last: sample, value, report
  aexception,  \* the exception ReadPNMImage threw, "none" if none
  \* ---- WritePNMImage, WriteTIFFImage, WritePSImage
  wmode,       \* the row loop running: a PNM format, "tiff" or a PS dump mode
  wdepth,      \* image->depth
  wrows,       \* image->rows
  wcols,       \* image->columns
  wpc,         \* "row" at a row's start, "pixel" inside it, "end", "done"
  wy,          \* the row
  wx,          \* the column
  wq,          \* q-pixels, the write offset into pixels[2048]
  wpeak,       \* the largest q-pixels reached so far
  wlength,     \* length, the run length of the run-length dumps
  wprev,       \* pixel or index, the colour of the run
  wbit,        \* bit, the bits gathered by the bitmap dumps
  wfail,       \* whether a row write has failed
  wresult,     \* what the writer returned, "none" before it returns
  \* ---- ReadPNMImage, case '7': the index queue of CMYK rows
  indexes,     \* the pointer indexes of the case: the row whose queue it names
  pdepth,      \* image->depth
  prows,       \* image->rows
  prow,        \* the shared row counter
  pstatus,     \* the shared status flag
  py,          \* next loop index y the dynamic schedule hands out
  ppc,         \* each worker's position in the loop body
  poffset,     \* each worker's local offset
  px,          \* each worker's local x
  pqueue,      \* the index queue of each row: the raw row each entry came from
  \* ---- WritePNMImage then ReadPNMImage, case '7', one pixel of a row
  ctype,       \* quantum_type with image->matte: the tuple type
  cdepth,      \* image->depth
  cpixel,      \* the pixel written: red, green, blue, index, opacity
  cbytes,      \* the bytes the writer stored for the pixel
  cback,       \* the pixel the reader decoded from them
  cpc,         \* "pixel", "exported", "imported"
  \* ---- ReadPNMImage: image->depth and the extent of a raw row
  eformat,     \* the format character after 'P'
  etype,       \* the tuple type of a PAM file
  emax,        \* max_value
  ecols,       \* image->columns
  edepth,      \* image->depth
  eextent,     \* extent
  econsumed,   \* p-pixels after the row is decoded
  epc,         \* "header", "case", "row", "decoded"
  \* ---- WritePNMImage then ReadPNMImage, case '1', one row
  brow,        \* the intensities of the pixels of the row written
  btext,       \* the characters the writer has written or staged
  bq,          \* q-pixels, the offset into the staged line
  bpos,        \* the next character of the text the reader reads
  bback,       \* the pixels the reader has decoded
  bpc,         \* "write", "read", "done"
  \* ---- WritePNMImage then ReadPNMImage, case 'f'
  fendian,     \* image->endian of the image written
  fscale,      \* the scale line of the header, in tenths; 0 before it is written
  fy,          \* the writer's row y
  fstream,     \* the image rows in the order the writer wrote them
  frendian,    \* image->endian as the reader sets it
  frow,        \* the reader's shared row counter
  fnexty,      \* next loop index y the dynamic schedule hands out
  fpc,         \* each worker's position in the reader's loop body
  foffset,     \* each worker's local offset
  fbuf,        \* the row each worker read from the stream
  fimage,      \* the image read: image row -> the row stored there
  fphase,      \* "header", "rows", "read"
  \* ---- ReadTIFFImage and WriteTIFFImage, the alpha association
  textra,      \* extra_samples of the file
  tsample,     \* sample_info[0] of the file
  tspp,        \* samples_per_pixel of the file
  tphoto,      \* photometric of the file
  toption,     \* the tiff:alpha option of image_info
  tmatte,      \* image->matte
  tassoc,      \* associated_alpha
  talpha,      \* the reader's quantum_info->alpha_type
  tproperty,   \* the image's tiff:alpha property
  twsample,    \* sample_info[0] the writer sets
  twalpha,     \* the writer's quantum_info->alpha_type
  tpc,         \* "extra", "option", "read", "written"
  \* ---- the QuantumInfo of ReadTIFFImage, ReadPNMImage, WritePNMImage
  qop,         \* the operation
  qframes,     \* directories of the TIFF file from the current one on
  qlimit,      \* image_info->number_scenes, with image_info->scene 0
  qping,       \* image_info->ping
  qscene,      \* image->scene
  qacquired,   \* QuantumInfos acquired
  qdestroyed,  \* QuantumInfos destroyed
  qexit,       \* "none", "normal", "scene limit", "cancel", "error"
  qpc,         \* "top", "configure", "decode", "next", "rows", "returned"
  \* ---- WritePSImage, the run-length and the uncompressed dump of one image
  sclass,      \* image->storage_class
  smatte,      \* image->matte
  simage,      \* the rows of the image: pixels [colour, opacity]
  sy,          \* the row y
  sx,          \* the column x
  spixel,      \* pixel, the pixel of the run (its colour is the index in PseudoClass)
  slength,     \* length
  spackets,    \* the run-length packets written: [row, colour, length]
  sdump,       \* the colours the uncompressed dump wrote
  spc,         \* "rle", "dump", "done"
  \* ---- ReadPNMImage, case '6': the image type found by the row workers
  mimage,      \* the decoded rows: the kind of each pixel
  mtype,       \* type, shared by the workers
  mnexty,      \* next loop index y the dynamic schedule hands out
  mpc,         \* each worker's position in the type loop
  mrow,        \* each worker's row
  mx,          \* each worker's x
  mpend,       \* the value each worker is about to store into type
  mresult,     \* image->type
  \* ---- the Register and Unregister functions of the modules
  rlist,       \* the tags in the list of supported formats
  rop,         \* "Register" or "Unregister", the function called last
  rmod,        \* its module
  rnext,       \* the index of its next tag; past the last when it has returned
  rprev,       \* the function called before it and its module
  rcalls,      \* functions called
  \* ---- TIFFWritePixels, the tiled output of one image
  zcols,       \* image->columns
  zrows,       \* image->rows
  zwidth,      \* tiff_info->tile_geometry.width
  zheight,     \* tiff_info->tile_geometry.height
  zrow,        \* row of the call under way, or of the next call
  zslots,      \* the band: slot -> the image row copied there last
  zi,          \* i, the tile of the flush under way; -1 outside a flush
  ztiles,      \* the tiles handed to TIFFWriteTile: [call, x, y, width, lines]
  zreturns,    \* the values the calls returned
  \* ---- WritePNMImage, case '6': one row
  ndepth,      \* image->depth
  nmatte,      \* image->matte
  ncols,       \* image->columns
  npixel,      \* the pixel the row is made of
  nx,          \* the column x
  nbytes,      \* the bytes stored in pixels
  nextent,     \* extent, the bytes handed to WriteBlob; -1 before
  npc,         \* "header", "row", "written"
  \* ---- ReadTIFFImage: the RGBA raster decoders
  gmethod,     \* method
  gmatte,      \* image->matte
  gmsb,        \* whether the host stores the most significant byte first
  gpicture,    \* the pixels the file stores, row by row
  grps,        \* rows_per_strip
  gtw,         \* columns, the tile width
  gth,         \* rows, the tile length
  gy,          \* the row y
  gi,          \* i, the rows of the strip still to decode
  graster,     \* the raster libtiff filled last
  gstored,     \* the pixels stored and where each was read from
  galpha,      \* the alpha samples read and the opacity stored for each
  gdone,       \* the methods that have decoded the picture
  gpc,         \* "rows", "done"
  \* ---- ReadTIFFImage, WriteTIFFImage: the libtiff message handlers
  hop,         \* the operation called
  herror,      \* the process-wide error handler of libtiff
  hwarning,    \* the process-wide warning handler of libtiff
  herror_handler,\* error_handler, "unset" before it is assigned
  hwarning_handler,\* warning_handler, "unset" before it is assigned
  hentry,      \* the process-wide handlers when the call was entered
  hscenes,     \* image_info->number_scenes != 0
  hframes,     \* the frames still to go
  hcalls,      \* the calls made so far
  hexit,       \* the return taken, "none" before
  hpc,         \* "entry", "install", "open", "scenes", "frame", "next", "returned"
  \* ---- RegisterTIFFImage, UnregisterTIFFImage: the thread key
  ksemaphore,  \* tiff_semaphore: the semaphore it points to, 0 if NULL
  kholder,     \* the thread that has locked each semaphore, 0 if none
  kallocated,  \* the semaphores allocated so far
  kheld,       \* the semaphore each thread locked when it acquired, 0 if none
  kinstantiate,\* instantiate_key
  kexists,     \* whether the thread key tiff_exception exists
  kop,         \* the function each thread is in
  kpc,         \* each thread's position in it
  kcalls,      \* the calls made so far
  kunheld,     \* instantiate_key was tested or changed without tiff_semaphore
  krepeated    \* the key was created while it existed or deleted while not

readVars == <<format, rows, stream, blobpos, row, status, monitor, lock, nexty,
              pc, rowreg, offset, count, pixels, nexus, cache, result,
              assigned, reads, readers, progress, cause>>

asciiVars == <<max_value, apc, scale, scaleSet, ti, ay, ax, stored, aexception>>

writeVars == <<wmode, wdepth, wrows, wcols, wpc, wy, wx, wq, wpeak, wlength,
               wprev, wbit, wfail, wresult>>

pamVars == <<indexes, pdepth, prows, prow, pstatus, py, ppc, poffset, px,
             pqueue>>

codecVars == <<ctype, cdepth, cpixel, cbytes, cback, cpc>>

\* The state of the loops modelled after the first three.
extentVars == <<eformat, etype, emax, ecols, edepth, eextent, econsumed, epc>>

bilevelVars == <<brow, btext, bq, bpos, bback, bpc>>

pfmVars == <<fendian, fscale, fy, fstream, frendian, frow, fnexty, fpc,
             foffset, fbuf, fimage, fphase>>

tiffAlphaVars == <<textra, tsample, tspp, tphoto, toption, tmatte, tassoc,
                   talpha, tproperty, twsample, twalpha, tpc>>

quantumVars == <<qop, qframes, qlimit, qping, qscene, qacquired, qdestroyed,
                 qexit, qpc>>

psVars == <<sclass, smatte, simage, sy, sx, spixel, slength, spackets,
            sdump, spc>>

typeVars == <<mimage, mtype, mnexty, mpc, mrow, mx, mpend, mresult>>

registryVars == <<rlist, rop, rmod, rnext, rprev, rcalls>>

tileVars == <<zcols, zrows, zwidth, zheight, zrow, zslots, zi, ztiles,
              zreturns>>

ppmVars == <<ndepth, nmatte, ncols, npixel, nx, nbytes, nextent, npc>>

rgbaVars == <<gmethod, gmatte, gmsb, gpicture, grps, gtw, gth, gy, gi,
              graster, gstored, galpha, gdone, gpc>>

handlersVars == <<hop, herror, hwarning, herror_handler, hwarning_handler,
                  hentry, hscenes, hframes, hcalls, hexit, hpc>>

keyVars == <<ksemaphore, kholder, kallocated, kheld, kinstantiate, kexists,
             kop, kpc, kcalls, kunheld, krepeated>>

laterVars == <<pamVars, codecVars, extentVars, bilevelVars, pfmVars,
               tiffAlphaVars, quantumVars, psVars, typeVars, registryVars,
               tileVars, ppmVars, rgbaVars, handlersVars, keyVars>>

\* What the raw decode loop leaves alone.
notRead == <<asciiVars, writeVars, laterVars>>

\* What the ASCII decoders leave alone.
notAscii == <<readVars, writeVars, laterVars>>

\* What the writers leave alone.
notWrite == <<readVars, asciiVars, laterVars>>

\* What the PAM index loop leaves alone.
notPam == <<readVars, asciiVars, writeVars, codecVars, extentVars,
            bilevelVars, pfmVars, tiffAlphaVars, quantumVars, psVars,
            typeVars, registryVars, tileVars, ppmVars, rgbaVars,
            handlersVars, keyVars>>

\* What the PAM pixel loops leave alone.
notCodec == <<readVars, asciiVars, writeVars, pamVars, extentVars,
              bilevelVars, pfmVars, tiffAlphaVars, quantumVars, psVars,
              typeVars, registryVars, tileVars, ppmVars, rgbaVars,
              handlersVars, keyVars>>

\* What the depth and extent of a raw row leave alone.
notExtent == <<readVars, asciiVars, writeVars, pamVars, codecVars,
               bilevelVars, pfmVars, tiffAlphaVars, quantumVars, psVars,
               typeVars, registryVars, tileVars, ppmVars, rgbaVars,
               handlersVars, keyVars>>

\* What the PBM row leaves alone.
notBilevel == <<readVars, asciiVars, writeVars, pamVars, codecVars,
                extentVars, pfmVars, tiffAlphaVars, quantumVars, psVars,
                typeVars, registryVars, tileVars, ppmVars, rgbaVars,
                handlersVars, keyVars>>

\* What the PFM rows leave alone.
notPfm == <<readVars, asciiVars, writeVars, pamVars, codecVars, extentVars,
            bilevelVars, tiffAlphaVars, quantumVars, psVars, typeVars,
            registryVars, tileVars, ppmVars, rgbaVars, handlersVars, keyVars>>

\* What the TIFF alpha association leaves alone.
notTiffAlpha == <<readVars, asciiVars, writeVars, pamVars, codecVars,
                  extentVars, bilevelVars, pfmVars, quantumVars, psVars,
                  typeVars, registryVars, tileVars, ppmVars, rgbaVars,
                  handlersVars, keyVars>>

\* What the QuantumInfo's life leaves alone.
notQuantum == <<readVars, asciiVars, writeVars, pamVars, codecVars,
                extentVars, bilevelVars, pfmVars, tiffAlphaVars, psVars,
                typeVars, registryVars, tileVars, ppmVars, rgbaVars,
                handlersVars, keyVars>>

\* What the PostScript dumps leave alone.
notPs == <<readVars, asciiVars, writeVars, pamVars, codecVars, extentVars,
           bilevelVars, pfmVars, tiffAlphaVars, quantumVars, typeVars,
           registryVars, tileVars, ppmVars, rgbaVars, handlersVars, keyVars>>

\* What the type loop leaves alone.
notType == <<readVars, asciiVars, writeVars, pamVars, codecVars, extentVars,
             bilevelVars, pfmVars, tiffAlphaVars, quantumVars, psVars,
             registryVars, tileVars, ppmVars, rgbaVars, handlersVars,
             keyVars>>

\* What the Register and Unregister functions leave alone.
notRegistry == <<readVars, asciiVars, writeVars, pamVars, codecVars,
                 extentVars, bilevelVars, pfmVars, tiffAlphaVars,
                 quantumVars, psVars, typeVars, tileVars, ppmVars, rgbaVars,
                 handlersVars, keyVars>>

\* What the tiled output leaves alone.
notTile == <<readVars, asciiVars, writeVars, pamVars, codecVars, extentVars,
             bilevelVars, pfmVars, tiffAlphaVars, quantumVars, psVars,
             typeVars, registryVars, ppmVars, rgbaVars, handlersVars,
             keyVars>>

\* What the raw PPM row leaves alone.
notPpm == <<readVars, asciiVars, writeVars, pamVars, codecVars, extentVars,
            bilevelVars, pfmVars, tiffAlphaVars, quantumVars, psVars,
            typeVars, registryVars, tileVars, rgbaVars, handlersVars,
            keyVars>>

\* What the RGBA raster decoders leave alone.
notRgba == <<readVars, asciiVars, writeVars, pamVars, codecVars, extentVars,
             bilevelVars, pfmVars, tiffAlphaVars, quantumVars, psVars,
             typeVars, registryVars, tileVars, ppmVars, handlersVars,
             keyVars>>

\* What the handler bookkeeping leaves alone.
notHandlers == <<readVars, asciiVars, writeVars, pamVars, codecVars,
                 extentVars, bilevelVars, pfmVars, tiffAlphaVars,
                 quantumVars, psVars, typeVars, registryVars, tileVars,
                 ppmVars, rgbaVars, keyVars>>

\* What the thread key leaves alone.
notKey == <<readVars, asciiVars, writeVars, pamVars, codecVars, extentVars,
            bilevelVars, pfmVars, tiffAlphaVars, quantumVars, psVars,
            typeVars, registryVars, tileVars, ppmVars, rgbaVars,
            handlersVars>>

vars == <<readVars, asciiVars, writeVars, laterVars>>

\* ------------------------------------------------------------ raw decode

Min(a, b) == IF a < b THEN a ELSE b

RawFormats == {"4", "5", "6", "7", "f"}

\* GetQuantumRange(depth): the largest sample of a depth.
GetQuantumRange(depth) == 2^depth - 1

\* ReadPNMImage: for (depth=1; GetQuantumRange(depth) < max_value; depth++) ;
RECURSIVE DepthFrom(_, _)
DepthFrom(depth, maxval) ==
  IF GetQuantumRange(depth) < maxval THEN DepthFrom(depth + 1, maxval)
  ELSE depth

\* The raw decode model reads headers that declare max_value 255 (bitmaps 1,
\* PFM none): image->depth is 8 for P5, P6 and P7.
RawDepth(f) ==
  CASE f = "4" -> DepthFrom(1, 1)
    [] f = "f" -> 32
    [] OTHER -> DepthFrom(1, 255)

\* The PAM headers of the model declare TUPLTYPE GRAYSCALE_ALPHA: quantum_type
\* GrayAlphaQuantum, image->matte set, channels = 1 + 1.
PAMChannels == 1 + 1

\* extent, the bytes of one raw row, as each case of ReadPNMImage sets it.
Extent(f) ==
  CASE f = "4" -> (Columns * RawDepth(f) + 7) \div 8
    [] f = "5" -> (IF RawDepth(f) <= 8 THEN 1 ELSE 2) * Columns
    [] f = "6" -> 3 * (IF RawDepth(f) <= 8 THEN 1 ELSE 2) * Columns
    [] f = "7" -> PAMChannels * (IF RawDepth(f) <= 8 THEN 1 ELSE 2) * Columns
    [] OTHER -> 4 * Columns

\* ScaleCharToQuantum of the Q16 build.
ScaleCharToQuantum(value) == 257 * value

\* Bit x (most significant first) of a row of bytes.
BitAt(bytes, x) == (bytes[(x \div 8) + 1] \div (2^(7 - (x % 8)))) % 2

\* ImportQuantumPixels: the canonical samples of one raw row, in channel order.
\*   P4  one bit a pixel, min-is-white: bit 1 is 0, bit 0 is QuantumRange
\*   P5  one byte a pixel, P6 three; P7 gray then alpha, stored as opacity
\*   Pf  the four bytes of one float, most significant first, kept as the
\*       bytes of the 32-bit pattern the importer converts
ImportQuantumPixels(f, bytes) ==
  CASE f = "4" ->
         [x \in 1..Columns |-> IF BitAt(bytes, x - 1) = 1 THEN 0 ELSE QuantumRange]
    [] f = "7" ->
         [i \in 1..Len(bytes) |->
            IF i % 2 = 1 THEN ScaleCharToQuantum(bytes[i])
            ELSE QuantumRange - ScaleCharToQuantum(bytes[i])]
    [] f = "f" ->
         [x \in 1..Columns |->
            <<bytes[4*x - 3], bytes[4*x - 2], bytes[4*x - 1], bytes[4*x]>>]
    [] OTHER -> [i \in 1..Len(bytes) |-> ScaleCharToQuantum(bytes[i])]

\* GetQuantumPixels(quantum_info): the row buffer of the calling thread.
GetQuantumPixels(w) == w

\* ReadBlob(image, extent, pixels): what the buffer holds after the call; the
\* bytes past the count returned keep what they held.
ReadBlobCount(extent) == Min(extent, Len(stream) - blobpos)
ReadBlobBytes(extent) == [i \in 1..ReadBlobCount(extent) |-> stream[blobpos + i]]
ReadBlobInto(buffer, extent) ==
  [i \in 1..Len(buffer) |->
     IF i <= ReadBlobCount(extent) THEN stream[blobpos + i] ELSE buffer[i]]

\* The image row a raw row lands in when the PFM case is not told apart.
TargetRowSame(off) == off

\* The image row a raw row lands in: offset, or rows-offset-1 for PFM.
TargetRow(off) == IF format = "f" THEN rows - off - 1 ELSE off

\* Whether the case compares the length ImportQuantumPixels returns with extent.
ChecksLength(f) ==
  \/ f \in {"4", "f"}
  \/ f = "6" /\ RawDepth(f) \in {8, 16}

\* A row of the pixel cache that no worker has synced.
NoRow == [px |-> <<>>, raw |-> <<>>, by |-> 0]
Synced(r) == cache[r].by # 0

NoResult == [returned |-> FALSE, image |-> NULL, exception |-> "none"]

StaleFill == {0, 255}

\* The lengths of the blobs read: all the rows (full), or a blob that ends a
\* byte or a row early, or is empty.
Lengths(full) ==
  {len \in {0, full - Extent(format), full - 1, full} : len >= 0}

\* The ASCII decoders before ReadPNMImage is called on an ASCII file.
AsciiIdle ==
  /\ max_value = 1
  /\ apc = "idle"
  /\ scale = <<>>
  /\ scaleSet = FALSE
  /\ ti = 0
  /\ ay = 0
  /\ ax = 0
  /\ stored = <<>>
  /\ aexception = "none"

\* The writers before any of them is called.
WriteIdle ==
  /\ wmode = "idle"
  /\ wdepth = 8
  /\ wrows = 1
  /\ wcols = 1
  /\ wpc = "done"
  /\ wy = 0
  /\ wx = 0
  /\ wq = 0
  /\ wpeak = 0
  /\ wlength = 0
  /\ wprev = 0
  /\ wbit = 0
  /\ wfail = FALSE
  /\ wresult = "none"

\* The PAM index loop before ReadPNMImage is called on a CMYK PAM file.
PamIdle ==
  /\ indexes = -1
  /\ pdepth = 8
  /\ prows = 1
  /\ prow = 0
  /\ pstatus = MagickTrue
  /\ py = 0
  /\ ppc = [w \in Workers |-> "exit"]
  /\ poffset = [w \in Workers |-> 0]
  /\ px = [w \in Workers |-> 0]
  /\ pqueue = <<>>

NoPixel == [red |-> 0, green |-> 0, blue |-> 0, index |-> 0, opacity |-> 0]

\* The PAM pixel loops before a PAM image is written.
CodecIdle ==
  /\ ctype = "none"
  /\ cdepth = 8
  /\ cpixel = NoPixel
  /\ cbytes = <<>>
  /\ cback = NoPixel
  /\ cpc = "done"

\* The depth and extent of a raw row before a header is read.
ExtentIdle ==
  /\ eformat = "none"
  /\ etype = "none"
  /\ emax = 1
  /\ ecols = 1
  /\ edepth = 0
  /\ eextent = 0
  /\ econsumed = 0
  /\ epc = "done"

\* The PBM row before an image is written.
BilevelIdle ==
  /\ brow = <<>>
  /\ btext = <<>>
  /\ bq = 0
  /\ bpos = 1
  /\ bback = <<>>
  /\ bpc = "idle"

\* The PFM rows before an image is written.
PfmIdle ==
  /\ fendian = "UndefinedEndian"
  /\ fscale = 0
  /\ fy = 0
  /\ fstream = <<>>
  /\ frendian = "UndefinedEndian"
  /\ frow = 0
  /\ fnexty = 0
  /\ fpc = [w \in Workers |-> "exit"]
  /\ foffset = [w \in Workers |-> 0]
  /\ fbuf = [w \in Workers |-> -1]
  /\ fimage = <<>>
  /\ fphase = "idle"

\* The TIFF alpha association before a file is read.
TiffAlphaIdle ==
  /\ textra = 0
  /\ tsample = "UNSPECIFIED"
  /\ tspp = 1
  /\ tphoto = "MINISBLACK"
  /\ toption = "NULL"
  /\ tmatte = MagickFalse
  /\ tassoc = MagickFalse
  /\ talpha = "UndefinedQuantumAlpha"
  /\ tproperty = "NULL"
  /\ twsample = "NULL"
  /\ twalpha = "UndefinedQuantumAlpha"
  /\ tpc = "idle"

\* No operation holding a QuantumInfo.
QuantumIdle ==
  /\ qop = "none"
  /\ qframes = 0
  /\ qlimit = 0
  /\ qping = MagickFalse
  /\ qscene = 0
  /\ qacquired = 0
  /\ qdestroyed = 0
  /\ qexit = "none"
  /\ qpc = "idle"

\* No PostScript dump under way.
PsIdle ==
  /\ sclass = "none"
  /\ smatte = MagickFalse
  /\ simage = <<>>
  /\ sy = 0
  /\ sx = 0
  /\ spixel = [colour |-> 0, opacity |-> 0]
  /\ slength = 0
  /\ spackets = <<>>
  /\ sdump = <<>>
  /\ spc = "idle"

\* No raw PPM being typed.
TypeIdle ==
  /\ mimage = <<>>
  /\ mtype = "BilevelType"
  /\ mnexty = 0
  /\ mpc = [w \in Workers |-> "exit"]
  /\ mrow = [w \in Workers |-> 0]
  /\ mx = [w \in Workers |-> 0]
  /\ mpend = [w \in Workers |-> "none"]
  /\ mresult = "UndefinedType"

\* No module registered.
RegistryIdle ==
  /\ rlist = {}
  /\ rop = "none"
  /\ rmod = "none"
  /\ rnext = 1
  /\ rprev = <<"none", "none">>
  /\ rcalls = 0

\* No tiled output under way.
TileIdle ==
  /\ zcols = 0
  /\ zrows = 0
  /\ zwidth = 1
  /\ zheight = 1
  /\ zrow = 0
  /\ zslots = <<>>
  /\ zi = -1
  /\ ztiles = <<>>
  /\ zreturns = <<>>

\* No raw PPM row being written.
PpmIdle ==
  /\ ndepth = 8
  /\ nmatte = MagickFalse
  /\ ncols = 0
  /\ npixel = [red |-> 0, green |-> 0, blue |-> 0, opacity |-> 0]
  /\ nx = 0
  /\ nbytes = <<>>
  /\ nextent = -1
  /\ npc = "idle"

\* No RGBA raster being decoded.
RgbaIdle ==
  /\ gmethod = "ReadGenericMethod"
  /\ gmatte = MagickFalse
  /\ gmsb = FALSE
  /\ gpicture = <<>>
  /\ grps = 1
  /\ gtw = 1
  /\ gth = 1
  /\ gy = 0
  /\ gi = 0
  /\ graster = <<>>
  /\ gstored = {}
  /\ galpha = {}
  /\ gdone = {}
  /\ gpc = "idle"

\* No TIFF call under way.
HandlersIdle ==
  /\ hop = "ReadTIFFImage"
  /\ herror = "libtiff"
  /\ hwarning = "libtiff"
  /\ herror_handler = "unset"
  /\ hwarning_handler = "unset"
  /\ hentry = <<"libtiff", "libtiff">>
  /\ hscenes = MagickFalse
  /\ hframes = 0
  /\ hcalls = 0
  /\ hexit = "none"
  /\ hpc = "idle"

\* No thread in RegisterTIFFImage or UnregisterTIFFImage.
KeyIdle ==
  /\ ksemaphore = 0
  /\ kholder = <<>>
  /\ kallocated = 0
  /\ kheld = <<>>
  /\ kinstantiate = MagickFalse
  /\ kexists = FALSE
  /\ kop = <<>>
  /\ kpc = <<>>
  /\ kcalls = 0
  /\ kunheld = FALSE
  /\ krepeated = FALSE

LaterIdle ==
  /\ PamIdle
  /\ CodecIdle
  /\ ExtentIdle
  /\ BilevelIdle
  /\ PfmIdle
  /\ TiffAlphaIdle
  /\ QuantumIdle
  /\ PsIdle
  /\ TypeIdle
  /\ RegistryIdle
  /\ TileIdle
  /\ PpmIdle
  /\ RgbaIdle
  /\ HandlersIdle
  /\ KeyIdle

InitRead ==
  /\ AsciiIdle
  /\ WriteIdle
  /\ LaterIdle
  /\ format \in RawFormats
  /\ rows \in 1..MaxRows
  /\ \E len \in Lengths(rows * Extent(format)) :
       /\ stream = [p \in 1..len |-> (StreamSeed + 71 * (p - 1)) % 256]
  /\ blobpos = 0
  /\ row = 0
  /\ status = MagickTrue
  /\ monitor \in BOOLEAN
  /\ lock = 0
  /\ nexty = 0
  /\ pc = [w \in Workers |-> "idle"]
  /\ rowreg = [w \in Workers |-> 0]
  /\ offset = [w \in Workers |-> 0]
  /\ count = [w \in Workers |-> 0]
  /\ \E fill \in StaleFill :
       pixels = [w \in Workers |-> [i \in 1..Extent(format) |-> fill]]
  /\ nexus = [w \in Workers |-> NULL]
  /\ cache = [r \in 0..(rows - 1) |-> NoRow]
  /\ result = NoResult
  /\ assigned = <<>>
  /\ reads = <<>>
  /\ readers = <<>>
  /\ progress = <<>>
  /\ cause = {}

\* #pragma omp parallel for schedule(dynamic,1): a free worker takes the next y,
\* or leaves the loop when none is left.
Dispatch(w) ==
  /\ pc[w] = "idle"
  /\ result.returned = FALSE
  /\ \/ /\ nexty < rows
        /\ nexty' = nexty + 1
        /\ pc' = [pc EXCEPT ![w] = "check"]
     \/ /\ nexty >= rows
        /\ nexty' = nexty
        /\ pc' = [pc EXCEPT ![w] = "exit"]
  /\ UNCHANGED <<format, rows, stream, blobpos, row, status, monitor, lock,
                 rowreg, offset, count, pixels, nexus, cache, result,
                 assigned, reads, readers, progress, cause>>
  /\ UNCHANGED notRead

\* The start of an iteration that does not look at status.
CheckStatusIgnored(w) ==
  /\ pc[w] = "check"
  /\ pc' = [pc EXCEPT ![w] = "enter"]
  /\ UNCHANGED <<format, rows, stream, blobpos, row, status, monitor, lock, nexty,
                 rowreg, offset, count, pixels, nexus, cache, result,
                 assigned, reads, readers, progress, cause>>
  /\ UNCHANGED notRead

\* if (status == MagickFalse) continue; pixels=GetQuantumPixels(quantum_info);
CheckStatus(w) ==
  /\ pc[w] = "check"
  /\ pc' = [pc EXCEPT ![w] = IF status = MagickFalse THEN "idle" ELSE "enter"]
  /\ UNCHANGED <<format, rows, stream, blobpos, row, status, monitor, lock, nexty,
                 rowreg, offset, count, pixels, nexus, cache, result,
                 assigned, reads, readers, progress, cause>>
  /\ UNCHANGED notRead

\* The loop body entered with no critical section around the read.
EnterUnguarded(w) ==
  /\ pc[w] = "enter"
  /\ lock' = w
  /\ pc' = [pc EXCEPT ![w] = "read"]
  /\ UNCHANGED <<format, rows, stream, blobpos, row, status, monitor, nexty,
                 rowreg, offset, count, pixels, nexus, cache, result,
                 assigned, reads, readers, progress, cause>>
  /\ UNCHANGED notRead

\* #pragma omp critical (MagickCore_ReadPNMImage): entry.
EnterCritical(w) ==
  /\ pc[w] = "enter"
  /\ lock = 0
  /\ lock' = w
  /\ pc' = [pc EXCEPT ![w] = "read"]
  /\ UNCHANGED <<format, rows, stream, blobpos, row, status, monitor, nexty,
                 rowreg, offset, count, pixels, nexus, cache, result,
                 assigned, reads, readers, progress, cause>>
  /\ UNCHANGED notRead

\* SetImageProgress(image,tag,offset,extent): the installed monitor is called
\* once, with the offset; calls is the history of the calls made.
SetImageProgress(calls, off) == Append(calls, off)

\* count=ReadBlob(image,extent,pixels); then SetImageProgress with row when a
\* monitor is installed; a monitor that returns MagickFalse clears status.
ReadRow(w) ==
  /\ pc[w] = "read"
  /\ LET extent == Extent(format)
         b == GetQuantumPixels(w)
     IN  /\ count' = [count EXCEPT ![w] = ReadBlobCount(extent)]
         /\ pixels' = [pixels EXCEPT ![b] = ReadBlobInto(pixels[b], extent)]
         /\ blobpos' = blobpos + ReadBlobCount(extent)
         /\ reads' = Append(reads, ReadBlobBytes(extent))
         /\ readers' = Append(readers, w)
  /\ \/ /\ monitor
        /\ progress' = SetImageProgress(progress, row)
        /\ \E proceed \in BOOLEAN :
             IF proceed = MagickFalse
             THEN status' = MagickFalse /\ cause' = cause \cup {"cancel"}
             ELSE UNCHANGED <<status, cause>>
     \/ /\ ~monitor
        /\ UNCHANGED <<progress, status, cause>>
  /\ pc' = [pc EXCEPT ![w] = "load"]
  /\ UNCHANGED <<format, rows, stream, row, monitor, lock, nexty, rowreg,
                 offset, nexus, cache, result, assigned>>
  /\ UNCHANGED notRead

\* offset=row++; the load of row.
LoadRow(w) ==
  /\ pc[w] = "load"
  /\ rowreg' = [rowreg EXCEPT ![w] = row]
  /\ pc' = [pc EXCEPT ![w] = "incr"]
  /\ UNCHANGED <<format, rows, stream, blobpos, row, status, monitor, lock, nexty,
                 offset, count, pixels, nexus, cache, result,
                 assigned, reads, readers, progress, cause>>
  /\ UNCHANGED notRead

\* offset=row; the counter is assigned and not advanced.
IncrementRowMissing(w) ==
  /\ pc[w] = "incr"
  /\ offset' = [offset EXCEPT ![w] = rowreg[w]]
  /\ row' = rowreg[w]
  /\ assigned' = Append(assigned, rowreg[w])
  /\ lock' = IF lock = w THEN 0 ELSE lock
  /\ pc' = [pc EXCEPT ![w] = "queue"]
  /\ UNCHANGED <<format, rows, stream, blobpos, status, monitor, nexty,
                 rowreg, count, pixels, nexus, cache, result,
                 reads, readers, progress, cause>>
  /\ UNCHANGED notRead

\* offset=row++; the store to offset and to row, and the end of the critical
\* section.
IncrementRow(w) ==
  /\ pc[w] = "incr"
  /\ offset' = [offset EXCEPT ![w] = rowreg[w]]
  /\ row' = rowreg[w] + 1
  /\ assigned' = Append(assigned, rowreg[w])
  /\ lock' = IF lock = w THEN 0 ELSE lock
  /\ pc' = [pc EXCEPT ![w] = "queue"]
  /\ UNCHANGED <<format, rows, stream, blobpos, status, monitor, nexty,
                 rowreg, count, pixels, nexus, cache, result,
                 reads, readers, progress, cause>>
  /\ UNCHANGED notRead

SetStatus(ok, why) ==
  IF ok THEN UNCHANGED <<status, cause>>
  ELSE status' = MagickFalse /\ cause' = cause \cup {why}

\* if (count != extent) status=MagickFalse; q=QueueCacheViewAuthenticPixels(
\* image_view,0,offset,...); if (q == NULL) { status=MagickFalse; continue; }
QueueRow(w) ==
  /\ pc[w] = "queue"
  /\ \/ /\ nexus' = [nexus EXCEPT ![w] =
                       [y |-> TargetRow(offset[w]), px |-> NULL, raw |-> NULL]]
        /\ SetStatus(count[w] = Extent(format), "short")
        /\ pc' = [pc EXCEPT ![w] = "import"]
     \/ /\ nexus' = [nexus EXCEPT ![w] = NULL]
        /\ status' = MagickFalse
        /\ cause' = cause \cup
                      (IF count[w] = Extent(format) THEN {"queue"}
                       ELSE {"queue", "short"})
        /\ pc' = [pc EXCEPT ![w] = "idle"]
  /\ UNCHANGED <<format, rows, stream, blobpos, row, monitor, lock, nexty,
                 rowreg, offset, count, pixels, cache, result,
                 assigned, reads, readers, progress>>
  /\ UNCHANGED notRead

\* length=ImportQuantumPixels(image,image_view,quantum_info,quantum_type,
\* pixels,exception); if (length != extent) status=MagickFalse; the P5 and P7
\* cases drop the length.
ImportRow(w) ==
  /\ pc[w] = "import"
  /\ LET b == GetQuantumPixels(w)
     IN  nexus' = [nexus EXCEPT ![w] =
                     [y |-> nexus[w].y,
                      px |-> ImportQuantumPixels(format, pixels[b]),
                      raw |-> pixels[b]]]
  /\ \E length \in {Extent(format), 0} :
       SetStatus(~ChecksLength(format) \/ length = Extent(format), "import")
  /\ pc' = [pc EXCEPT ![w] = "sync"]
  /\ UNCHANGED <<format, rows, stream, blobpos, row, monitor, lock, nexty,
                 rowreg, offset, count, pixels, cache, result,
                 assigned, reads, readers, progress>>
  /\ UNCHANGED notRead

\* sync=SyncCacheViewAuthenticPixels(image_view,exception);
\* if (sync == MagickFalse) status=MagickFalse;
SyncRow(w) ==
  /\ pc[w] = "sync"
  /\ \/ /\ cache' = [cache EXCEPT ![nexus[w].y] =
                       [px |-> nexus[w].px, raw |-> nexus[w].raw, by |-> w]]
        /\ UNCHANGED <<status, cause>>
     \/ /\ status' = MagickFalse
        /\ cause' = cause \cup {"sync"}
        /\ UNCHANGED cache
  /\ nexus' = [nexus EXCEPT ![w] = NULL]
  /\ pc' = [pc EXCEPT ![w] = "idle"]
  /\ UNCHANGED <<format, rows, stream, blobpos, row, monitor, lock, nexty,
                 rowreg, offset, count, pixels, result,
                 assigned, reads, readers, progress>>
  /\ UNCHANGED notRead

\* ThrowReaderException(severity,tag): the exception is recorded, the blob is
\* closed, the image list is destroyed and ReadPNMImage returns no image.
ThrowReaderException(severity, tag) ==
  [returned |-> TRUE, image |-> NULL, exception |-> tag]

\* The end of the loop when a cleared status only ended the loop, as the break
\* of the ASCII cases does.
FinishReadKeepsImage ==
  /\ \A w \in Workers : pc[w] = "exit"
  /\ result.returned = FALSE
  /\ result' = [returned |-> TRUE, image |-> "image",
                exception |-> IF status = MagickFalse
                              THEN "UnableToReadImageData" ELSE "none"]
  /\ UNCHANGED <<format, rows, stream, blobpos, row, status, monitor, lock, nexty,
                 pc, rowreg, offset, count, pixels, nexus, cache,
                 assigned, reads, readers, progress, cause>>
  /\ UNCHANGED notRead

\* After the loop: image_view=DestroyCacheView(image_view);
\* quantum_info=DestroyQuantumInfo(quantum_info); if (status == MagickFalse)
\* ThrowReaderException(CorruptImageError,"UnableToReadImageData"); otherwise
\* the image is returned.
FinishRead ==
  /\ \A w \in Workers : pc[w] = "exit"
  /\ result.returned = FALSE
  /\ result' = IF status = MagickFalse
               THEN ThrowReaderException("CorruptImageError",
                                         "UnableToReadImageData")
               ELSE [returned |-> TRUE, image |-> "image",
                     exception |-> "none"]
  /\ UNCHANGED <<format, rows, stream, blobpos, row, status, monitor, lock, nexty,
                 pc, rowreg, offset, count, pixels, nexus, cache,
                 assigned, reads, readers, progress, cause>>
  /\ UNCHANGED notRead

NextRead ==
  \/ \E w \in Workers :
       \/ Dispatch(w)
       \/ CheckStatus(w)
       \/ EnterCritical(w)
       \/ ReadRow(w)
       \/ LoadRow(w)
       \/ IncrementRow(w)
       \/ QueueRow(w)
       \/ ImportRow(w)
       \/ SyncRow(w)
  \/ FinishRead

SpecRead == InitRead /\ [][NextRead]_vars

\* ---------------------------------------------------- claims, raw decode

Range(seq) == {seq[i] : i \in 1..Len(seq)}

\* The image row that holds the raw row of the k-th ReadBlob call (k from 0).
RowOfRead(k) == IF format = "f" THEN rows - 1 - k ELSE k

\* C1: the shared counter row is loaded and stored only by the worker that
\* holds critical section MagickCore_ReadPNMImage, it never decreases, and the
\* n-th iteration to enter the critical section gets row index n-1, so no two
\* iterations get the same index.
C1_RowIndexInOrder == \A n \in 1..Len(assigned) : assigned[n] = n - 1

C1_RowStep ==
  /\ row' >= row
  /\ row' # row =>
       \E w \in Workers : pc[w] = "incr" /\ pc'[w] = "queue" /\ lock = w
  /\ \A w \in Workers :
       (pc[w] = "load" /\ pc'[w] = "incr") => lock = w

C1_RowCounter == []C1_RowIndexInOrder /\ [][C1_RowStep]_vars

C1_Witness ==
  /\ Len(assigned) = MaxRows
  /\ Cardinality(Range(readers)) > 1
  /\ \A w \in Workers : pc[w] = "exit"

C3_Step ==
  /\ status = MagickFalse => status' = MagickFalse
  /\ \A w \in Workers :
       (pc[w] = "check" /\ status = MagickFalse /\ pc'[w] # "check") =>
         /\ pc'[w] = "idle"
         /\ blobpos' = blobpos
         /\ reads' = reads
         /\ row' = row
         /\ cache' = cache
  /\ \A r \in 0..(rows - 1) : Synced(r) => cache'[r] = cache[r]

C3_StatusLatch == [][C3_Step]_vars

C3_Witness ==
  /\ status = MagickFalse
  /\ nexty = rows
  /\ Len(reads) < rows
  /\ \E r \in 0..(rows - 1) : Synced(r)
  /\ \A w \in Workers : pc[w] = "exit"

C6_CancelDistinct ==
  (result.returned /\ cause = {"cancel"}) =>
     result.exception # "UnableToReadImageData"

\* The row buffer a short read would leave if the bytes past the count were
\* cleared.
ZeroFilled(bytes) ==
  [i \in 1..Extent(format) |-> IF i <= Len(bytes) THEN bytes[i] ELSE 0]

\* C11: when the stream yields fewer bytes than the extent of a row, the
\* decoded row holds the pixels of the bytes read and zero for every sample
\* left; no byte an earlier row left in the buffer is decoded into it.
C11_ShortRowZeroFilled ==
  \A k \in 0..(rows - 1) :
    (Synced(RowOfRead(k)) /\ k < Len(reads)) =>
      /\ cache[RowOfRead(k)].raw = ZeroFilled(reads[k + 1])
      /\ cache[RowOfRead(k)].px =
           ImportQuantumPixels(format, ZeroFilled(reads[k + 1]))

\* C12: with a monitor installed (and no previous image) the monitor is
\* called once for each row read, inside the critical section, by the worker
\* that read the row, with the row counter before its increment: the rows
\* reported are 0, 1, 2, ... in order. With no monitor nothing is reported.
C12_CallsInOrder ==
  IF monitor
  THEN /\ Len(progress) = Len(reads)
       /\ \A n \in 1..Len(progress) : progress[n] = n - 1
  ELSE progress = <<>>

C12_CallStep ==
  progress' # progress =>
    \E w \in Workers :
      /\ pc[w] = "read"
      /\ lock = w
      /\ readers' = Append(readers, w)
      /\ progress' = Append(progress, row)
      /\ row' = row

C12_MonitorPerRow == []C12_CallsInOrder /\ [][C12_CallStep]_vars

C12_Witness ==
  /\ monitor
  /\ Len(progress) = MaxRows
  /\ Cardinality(Range(readers)) > 1
  /\ \A w \in Workers : pc[w] = "exit"

\* ---------------------------------------------------- ASCII decoders

AsciiFormats == {"2", "3"}

\* The maximum sample values the headers of the model declare.
MaxValues == {0, 1, 2, 3, 7, 255, TableMax, QuantumRange, QuantumRange + 1}

\* The samples PNMInteger returns for the pixels of the model.
Samples(maxval) == {0, 1, maxval, maxval + 1, 70000}

\* (Quantum) x of the Q16 build: the low 16 bits.
ToQuantum(x) == x % (QuantumRange + 1)

\* A table entry computed by truncation, with the +0.5 left out.
ScaleEntryTruncated(i, maxval) == ToQuantum((QuantumRange * i) \div maxval)

\* scale[i]=(Quantum) (((double) QuantumRange*i)/max_value+0.5): the double
\* quotient plus one half, truncated. The quotient's fraction is a multiple of
\* 1/max_value, which a double tells apart from one half for max_value < 65536.
ScaleEntry(i, maxval) ==
  ToQuantum(((QuantumRange * i) \div maxval)
            + (IF 2 * ((QuantumRange * i) % maxval) >= maxval THEN 1 ELSE 0))

\* What the conversion of 0.0/0+0.5, not a number, to Quantum can leave.
NaNQuantum == {0, 32768, QuantumRange}

\* ConstrainPixel(image,offset,extent): the offset, or 0 with InvalidPixel thrown.
ConstrainPixel(off, extent) ==
  IF off < 0 \/ off > extent
  THEN [index |-> 0, invalid |-> TRUE]
  ELSE [index |-> off, invalid |-> FALSE]

\* One channel as the P2 and P3 loops store it: through the table and
\* ConstrainPixel when a table was built, cast to Quantum either way.
StoreChannel(sample) ==
  IF scaleSet
  THEN LET c == ConstrainPixel(sample, max_value)
       IN  [sample |-> sample, index |-> c.index, reported |-> c.invalid,
            value |-> ToQuantum(scale[c.index + 1])]
  ELSE [sample |-> sample, index |-> -1, reported |-> FALSE,
        value |-> ToQuantum(sample)]

ReadIdle ==
  /\ stream = <<>>
  /\ blobpos = 0
  /\ row = 0
  /\ status = MagickTrue
  /\ monitor = FALSE
  /\ lock = 0
  /\ nexty = 0
  /\ pc = [w \in Workers |-> "exit"]
  /\ rowreg = [w \in Workers |-> 0]
  /\ offset = [w \in Workers |-> 0]
  /\ count = [w \in Workers |-> 0]
  /\ pixels = [w \in Workers |-> <<>>]
  /\ nexus = [w \in Workers |-> NULL]
  /\ cache = <<>>
  /\ result = NoResult
  /\ assigned = <<>>
  /\ reads = <<>>
  /\ readers = <<>>
  /\ progress = <<>>
  /\ cause = {}

InitAscii ==
  /\ ReadIdle
  /\ WriteIdle
  /\ LaterIdle
  /\ format \in AsciiFormats
  /\ rows \in 1..MaxRows
  /\ max_value \in MaxValues
  /\ apc = "header"
  /\ scale = <<>>
  /\ scaleSet = FALSE
  /\ ti = 0
  /\ ay = 0
  /\ ax = 0
  /\ stored = <<>>
  /\ aexception = "none"

\* if (max_value >= 65536) ThrowReaderException(CorruptImageError,
\* "ImproperImageHeader"); the only test of max_value the header gets.
CheckHeader ==
  /\ apc = "header"
  /\ \/ /\ max_value >= 65536
        /\ apc' = "rejected"
        /\ aexception' = "ImproperImageHeader"
     \/ /\ max_value < 65536
        /\ apc' = "case"
        /\ UNCHANGED aexception
  /\ UNCHANGED <<max_value, scale, scaleSet, ti, ay, ax, stored>>
  /\ UNCHANGED notAscii

\* scale=NULL; if (max_value != (1U*QuantumRange)) scale=AcquireQuantumMemory(
\* max_value+1UL,sizeof(*scale)), its entries not yet set.
BeginCase ==
  /\ apc = "case"
  /\ \/ /\ max_value # QuantumRange
        /\ scaleSet' = TRUE
        /\ scale' = <<>>
        /\ ti' = 0
        /\ apc' = "table"
     \/ /\ max_value = QuantumRange
        /\ UNCHANGED <<scaleSet, scale, ti>>
        /\ apc' = "pixels"
  /\ UNCHANGED <<max_value, ay, ax, stored, aexception>>
  /\ UNCHANGED notAscii

\* for (i=0; i <= (long) max_value; i++) scale[i]=...; one entry a step.
BuildScale ==
  /\ apc = "table"
  /\ \/ /\ ti <= max_value
        /\ \/ /\ max_value # 0
              /\ scale' = Append(scale, ScaleEntry(ti, max_value))
           \/ /\ max_value = 0
              /\ \E q \in NaNQuantum : scale' = Append(scale, q)
        /\ ti' = ti + 1
        /\ UNCHANGED apc
     \/ /\ ti > max_value
        /\ apc' = "pixels"
        /\ UNCHANGED <<scale, ti>>
  /\ UNCHANGED <<max_value, scaleSet, ay, ax, stored, aexception>>
  /\ UNCHANGED notAscii

\* One pixel of the P2 loop (one PNMInteger) or the P3 loop (three).
DecodePixel ==
  /\ apc = "pixels"
  /\ ax < Columns
  /\ \/ /\ format = "2"
        /\ \E intensity \in Samples(max_value) :
             stored' = <<StoreChannel(intensity)>>
     \/ /\ format = "3"
        /\ \E red \in Samples(max_value), green \in Samples(max_value),
              blue \in Samples(max_value) :
             stored' = <<StoreChannel(red), StoreChannel(green),
                         StoreChannel(blue)>>
  /\ ax' = ax + 1
  /\ UNCHANGED <<max_value, apc, scale, scaleSet, ti, ay, aexception>>
  /\ UNCHANGED notAscii

\* The end of a row: SyncAuthenticPixels and SetImageProgress, either of which
\* ends the loop with a break; after the last row the table is relinquished.
EndAsciiRow ==
  /\ apc = "pixels"
  /\ ax = Columns
  /\ \/ /\ ay + 1 < rows
        /\ ay' = ay + 1
        /\ ax' = 0
        /\ UNCHANGED apc
     \/ /\ ay + 1 = rows
        /\ apc' = "done"
        /\ UNCHANGED <<ay, ax>>
     \/ /\ apc' = "done"
        /\ UNCHANGED <<ay, ax>>
  /\ UNCHANGED <<max_value, scale, scaleSet, ti, stored, aexception>>
  /\ UNCHANGED notAscii

NextAscii ==
  \/ CheckHeader
  \/ BeginCase
  \/ BuildScale
  \/ DecodePixel
  \/ EndAsciiRow

SpecAscii == InitAscii /\ [][NextAscii]_vars

\* ------------------------------------------------ claims, ASCII decoders

\* The rescaled value of a sample in 0..max_value: round-half-up of
\* sample*QuantumRange/max_value, the sample itself when max_value is
\* QuantumRange.
IsRescaled(value, sample, maxval) ==
  IF maxval = QuantumRange THEN value = sample
  ELSE /\ (2 * value - 1) * maxval <= 2 * QuantumRange * sample
       /\ 2 * QuantumRange * sample < (2 * value + 1) * maxval

\* C8: for every max_value in 1..65535 every stored channel is the rescaled
\* value of a sample in 0..max_value: a sample above max_value is reported as
\* InvalidPixel and stored as the rescaled 0, and the table is indexed inside
\* 0..max_value only.
C8_StoredInRange ==
  (max_value >= 1 /\ max_value <= 65535) =>
    \A c \in 1..Len(stored) :
      /\ stored[c].sample > max_value =>
           stored[c].reported /\ stored[c].value = 0
      /\ stored[c].sample <= max_value =>
           IsRescaled(stored[c].value, stored[c].sample, max_value)
      /\ scaleSet => stored[c].index \in 0..max_value

\* C9: a header that declares max_value 0 is rejected before a scale table
\* is built or a pixel is scaled.
C9_ZeroMaxRejected ==
  max_value = 0 => (apc \in {"header", "rejected"} /\ ~scaleSet /\ stored = <<>>)

\* C10: for max_value in 1..65535 other than QuantumRange the table entry
\* scale[i] is floor(QuantumRange*i/max_value + 1/2): scale[0] is 0,
\* scale[max_value] is QuantumRange, the table does not decrease, and for
\* max_value 255 scale[i] is 257*i.
C10_ScaleTable ==
  (scaleSet /\ max_value >= 1 /\ max_value <= 65535) =>
    \A i \in 0..(Len(scale) - 1) :
      /\ IsRescaled(scale[i + 1], i, max_value)
      /\ i = 0 => scale[i + 1] = 0
      /\ i = max_value => scale[i + 1] = QuantumRange
      /\ i > 0 => scale[i] <= scale[i + 1]
      /\ max_value = 255 => scale[i + 1] = 257 * i

C10_Witness ==
  /\ apc = "pixels"
  /\ max_value = 255
  /\ Len(scale) = 256
  /\ scale[129] = 32896

\* ---------------------------------------------------------------- writers

Max(a, b) == IF a > b THEN a ELSE b

\* The loops that stage text in unsigned char pixels[2048].
StagedModes == {"1", "2", "3", "ps-preview", "ps-gray", "ps-bitmap",
                "ps-direct-rle", "ps-direct", "ps-pseudo-rle", "ps-pseudo"}

\* The loops that write one raw row a call.
RawModes == {"4", "5", "6", "7", "F", "tiff"}

\* The loops of WritePSImage among them.
PSModes == StagedModes \ {"1", "2", "3"}

RunLengthModes == {"ps-direct-rle", "ps-pseudo-rle"}
BitmapModes == {"ps-preview", "ps-bitmap"}

\* The pixels of the images written: black or white, a colour or index each.
PixelValues == {0, QuantumRange}

\* The images written: a pixel, a few pixels, a row wide enough to fill a
\* line of text, and a tall image one pixel wide.
Geometries == {<<1, 1>>, <<2, 2>>, <<2, HexCols>>, <<HexRows, 1>>}

ScaleQuantumToChar(quantum) == (quantum + 128) \div 257
ScaleQuantumToShort(quantum) == quantum

RECURSIVE Digits(_)
Digits(n) == IF n < 10 THEN 1 ELSE 1 + Digits(n \div 10)

\* count of FormatMagickString(buffer,MaxTextExtent,"%u ",...) for one sample.
SampleText(quantum) ==
  1 + Digits(IF wdepth <= 8 THEN ScaleQuantumToChar(quantum)
             ELSE ScaleQuantumToShort(quantum))

\* The slack each loop adds to q-pixels before it compares with 80; the P2
\* and P3 loops add the extent just copied.
Slack(mode, extent) ==
  CASE mode = "1" -> 2
    [] mode \in {"2", "3"} -> extent
    [] mode \in {"ps-preview", "ps-gray"} -> 8
    [] mode = "ps-bitmap" -> 2
    [] mode = "ps-direct-rle" -> 10
    [] mode = "ps-direct" -> 6
    [] mode = "ps-pseudo-rle" -> 6
    [] OTHER -> 4

\* q-pixels after n bytes are staged and the line is written out when it is
\* long enough: if ((q-pixels+slack) >= 80) { *q++='\n'; WriteBlob; q=pixels; }
Staged(q, n, slack) == IF q + n + slack >= 80 THEN 0 ELSE q + n
StagedPeak(q, n, slack) == IF q + n + slack >= 80 THEN q + n + 1 ELSE q + n

\* The packet after the last pixel of a row of the PseudoClass run-length
\* dump: two PopHexPixel calls and no test of q-pixels.
PseudoRowEnd(q, n, slack) == q + n

InitWrite ==
  /\ ReadIdle
  /\ AsciiIdle
  /\ LaterIdle
  /\ format = "none"
  /\ rows = 1
  /\ wmode \in StagedModes \cup RawModes
  /\ wdepth \in (IF wmode \in {"2", "3"} THEN {8, 16} ELSE {8})
  /\ \E g \in (IF wmode \in PSModes THEN Geometries
              ELSE Geometries \ {<<HexRows, 1>>}) :
       wrows = g[1] /\ wcols = g[2]
  /\ wpc = "row"
  /\ wy = 0
  /\ wx = 0
  /\ wq = 0
  /\ wpeak = 0
  /\ wlength = 0
  /\ wprev = 0
  /\ wbit = 0
  /\ wfail = FALSE
  /\ wresult = "none"

\* for (y=0; y < rows; y++) { p=GetVirtualPixels(...); if (p == NULL) break;
\* and what the staged loops set before the pixels of the row.
BeginRow ==
  /\ wpc = "row"
  /\ wmode \in StagedModes
  /\ \/ /\ wy < wrows
        /\ wpc' = "pixel"
        /\ wx' = 0
        /\ wbit' = 0
        /\ IF wmode \in RunLengthModes
           THEN /\ wlength' = 255
                /\ \E first \in PixelValues : wprev' = first
           ELSE UNCHANGED <<wlength, wprev>>
     \/ /\ wy < wrows
        /\ wpc' = "end"
        /\ UNCHANGED <<wx, wbit, wlength, wprev>>
     \/ /\ wy >= wrows
        /\ wpc' = "end"
        /\ UNCHANGED <<wx, wbit, wlength, wprev>>
  /\ UNCHANGED <<wmode, wdepth, wrows, wcols, wy, wq, wpeak, wfail, wresult>>
  /\ UNCHANGED notWrite

\* What one pixel stages, per loop: [n |-> bytes, test |-> whether q-pixels
\* is compared with 80 afterwards].
PixelBytes(cur, green, blue) ==
  CASE wmode = "1" -> [n |-> 2, test |-> TRUE]
    [] wmode = "2" -> [n |-> SampleText(cur), test |-> TRUE]
    [] wmode = "3" ->
         [n |-> SampleText(cur) + SampleText(green) + SampleText(blue),
          test |-> TRUE]
    [] wmode \in BitmapModes ->
         IF wbit + 1 = 8 THEN [n |-> 2, test |-> TRUE]
         ELSE [n |-> 0, test |-> FALSE]
    [] wmode = "ps-gray" -> [n |-> 2, test |-> TRUE]
    [] wmode = "ps-direct" -> [n |-> 6, test |-> TRUE]
    [] wmode = "ps-pseudo" -> [n |-> 2, test |-> TRUE]
    [] wmode \in RunLengthModes ->
         IF cur = wprev /\ wlength < 255 /\ wx < wcols - 1
         THEN [n |-> 0, test |-> FALSE]
         ELSE IF wx > 0
              THEN [n |-> IF wmode = "ps-direct-rle" THEN 8 ELSE 4,
                    test |-> TRUE]
              ELSE [n |-> 0, test |-> FALSE]

\* One pixel of a staged loop.
WritePixel ==
  /\ wpc = "pixel"
  /\ wx < wcols
  /\ \E cur \in (IF wmode \in RunLengthModes /\ wx = 0 THEN {wprev}
                 ELSE PixelValues),
        green \in (IF wmode = "3" THEN PixelValues ELSE {0}),
        blue \in (IF wmode = "3" THEN PixelValues ELSE {0}) :
       LET e == PixelBytes(cur, green, blue)
           slack == Slack(wmode, e.n)
       IN  /\ wq' = IF e.test THEN Staged(wq, e.n, slack) ELSE wq
           /\ wpeak' = IF e.test THEN Max(wpeak, StagedPeak(wq, e.n, slack))
                       ELSE wpeak
           /\ wlength' =
                IF wmode \in RunLengthModes
                THEN (IF cur = wprev /\ wlength < 255 /\ wx < wcols - 1
                      THEN wlength + 1 ELSE 0)
                ELSE wlength
           /\ wprev' = IF wmode \in RunLengthModes THEN cur ELSE wprev
           /\ wbit' = IF wmode \in BitmapModes THEN (wbit + 1) % 8 ELSE wbit
  /\ wx' = wx + 1
  /\ UNCHANGED <<wmode, wdepth, wrows, wcols, wpc, wy, wfail, wresult>>
  /\ UNCHANGED notWrite

\* After the pixels of a row: the bits left over of the bitmap dumps, the
\* last packet of the run-length dumps, then SetImageProgress, which ends the
\* loop when the monitor says stop. The preview dump calls no monitor.
EndRow ==
  /\ wpc = "pixel"
  /\ wx = wcols
  /\ LET n == CASE wmode \in BitmapModes -> IF wbit # 0 THEN 2 ELSE 0
                [] wmode = "ps-direct-rle" -> 8
                [] wmode = "ps-pseudo-rle" -> 4
                [] OTHER -> 0
         slack == Slack(wmode, n)
     IN  IF n = 0 THEN UNCHANGED <<wq, wpeak>>
         ELSE IF wmode = "ps-pseudo-rle"
              THEN /\ wq' = PseudoRowEnd(wq, n, slack)
                   /\ wpeak' = Max(wpeak, PseudoRowEnd(wq, n, slack))
              ELSE /\ wq' = Staged(wq, n, slack)
                   /\ wpeak' = Max(wpeak, StagedPeak(wq, n, slack))
  /\ wy' = wy + 1
  /\ \/ wpc' = "row"
     \/ wmode # "ps-preview" /\ wpc' = "end"
  /\ UNCHANGED <<wmode, wdepth, wrows, wcols, wx, wlength, wprev, wbit, wfail,
                 wresult>>
  /\ UNCHANGED notWrite

\* One row of a raw loop: GetVirtualPixels, the export, then
\*   count=WriteBlob(image,extent,pixels); if (count != extent) break;
\* ((void) WriteBlob for PFM), or for TIFF
\*   if (TIFFWritePixels(tiff,&tiff_info,y,0,image) == -1) break;
\* then SetImageProgress, which ends the loop when the monitor says stop.
WriteRawRow ==
  /\ wpc = "row"
  /\ wmode \in RawModes
  /\ \/ /\ wy < wrows
        /\ wpc' = "end"
        /\ UNCHANGED <<wy, wfail>>
     \/ /\ wy < wrows
        /\ wy' = wy + 1
        /\ UNCHANGED wfail
        /\ \/ wpc' = "row"
           \/ wpc' = "end"
     \/ /\ wy < wrows
        /\ wfail' = TRUE
        /\ IF wmode = "F"
           THEN /\ wy' = wy + 1
                /\ \/ wpc' = "row"
                   \/ wpc' = "end"
           ELSE /\ wpc' = "end"
                /\ UNCHANGED wy
     \/ /\ wy >= wrows
        /\ wpc' = "end"
        /\ UNCHANGED <<wy, wfail>>
  /\ UNCHANGED <<wmode, wdepth, wrows, wcols, wx, wq, wpeak, wlength, wprev,
                 wbit, wresult>>
  /\ UNCHANGED notWrite

\* After the loop: if (q != pixels) { *q++='\n'; WriteBlob(image,q-pixels,
\* pixels); } in the staged loops; then CloseBlob (TIFFClose) and
\* return(MagickTrue).
FinishWrite ==
  /\ wpc = "end"
  /\ IF wmode \in StagedModes /\ wq # 0
     THEN wq' = wq + 1 /\ wpeak' = Max(wpeak, wq + 1)
     ELSE UNCHANGED <<wq, wpeak>>
  /\ wresult' = "MagickTrue"
  /\ wpc' = "done"
  /\ UNCHANGED <<wmode, wdepth, wrows, wcols, wy, wx, wlength, wprev, wbit,
                 wfail>>
  /\ UNCHANGED notWrite

NextWrite ==
  \/ BeginRow
  \/ WritePixel
  \/ EndRow
  \/ WriteRawRow
  \/ FinishWrite

SpecWrite == InitWrite /\ [][NextWrite]_vars

\* ------------------------------------------------------- claims, writers

\* C5: when a row write fails (WriteBlob returns a count other than the
\* extent in WritePNMImage, TIFFWritePixels returns -1 in WriteTIFFImage) the
\* writer returns MagickFalse, never MagickTrue.
C5_WriteFailureReported ==
  (wresult # "none" /\ wfail /\ wmode \in RawModes) => wresult = "MagickFalse"

\* C7: in the writers that stage text in pixels[2048] the write offset
\* q-pixels never exceeds 2048.
C7_StagingInBounds == wmode \in StagedModes => wpeak <= 2048

\* ------------------------------------------- PAM (P7) CMYK index queues

\* The depths of the PAM files read: two that ImportQuantumPixels decodes
\* and two that the loops of the case decode.
PamDepths == {4, 8, 12, 16}

InitPam ==
  /\ ReadIdle
  /\ AsciiIdle
  /\ WriteIdle
  /\ format = "7"
  /\ rows = 1
  /\ indexes = -1
  /\ pdepth \in PamDepths
  /\ prows \in 1..MaxRows
  /\ prow = 0
  /\ pstatus = MagickTrue
  /\ py = 0
  /\ ppc = [w \in Workers |-> "idle"]
  /\ poffset = [w \in Workers |-> 0]
  /\ px = [w \in Workers |-> 0]
  /\ pqueue = [r \in 0..(prows - 1) |-> [x \in 1..(Columns + 1) |-> -1]]
  /\ CodecIdle
  /\ ExtentIdle
  /\ BilevelIdle
  /\ PfmIdle
  /\ TiffAlphaIdle
  /\ QuantumIdle
  /\ PsIdle
  /\ TypeIdle
  /\ RegistryIdle
  /\ TileIdle
  /\ PpmIdle
  /\ RgbaIdle
  /\ HandlersIdle
  /\ KeyIdle

\* #pragma omp parallel for schedule(dynamic,1) shared(row,status,quantum_type)
PamDispatch(w) ==
  /\ ppc[w] = "idle"
  /\ \/ /\ py < prows
        /\ py' = py + 1
        /\ ppc' = [ppc EXCEPT ![w] = "check"]
     \/ /\ py >= prows
        /\ py' = py
        /\ ppc' = [ppc EXCEPT ![w] = "exit"]
  /\ UNCHANGED <<indexes, pdepth, prows, prow, pstatus, poffset, px, pqueue>>
  /\ UNCHANGED notPam

\* if (status == MagickFalse) continue;
PamCheckStatus(w) ==
  /\ ppc[w] = "check"
  /\ ppc' = [ppc EXCEPT ![w] = IF pstatus = MagickFalse THEN "idle" ELSE "take"]
  /\ UNCHANGED <<indexes, pdepth, prows, prow, pstatus, py, poffset, px, pqueue>>
  /\ UNCHANGED notPam

\* The critical section: ReadBlob and offset=row++.
PamTakeRow(w) ==
  /\ ppc[w] = "take"
  /\ poffset' = [poffset EXCEPT ![w] = prow]
  /\ prow' = prow + 1
  /\ ppc' = [ppc EXCEPT ![w] = "queue"]
  /\ UNCHANGED <<indexes, pdepth, prows, pstatus, py, px, pqueue>>
  /\ UNCHANGED notPam

\* q=QueueCacheViewAuthenticPixels(image_view,0,offset,...); if (q == NULL)
\* { status=MagickFalse; continue; }
\* indexes=GetCacheViewAuthenticIndexQueue(image_view);
\* indexes is declared in the case, outside the parallel loop, and named in
\* no private clause: the workers share it.
PamQueueRow(w) ==
  /\ ppc[w] = "queue"
  /\ \/ /\ indexes' = poffset[w]
        /\ px' = [px EXCEPT ![w] = 0]
        /\ ppc' = [ppc EXCEPT ![w] = "store"]
        /\ UNCHANGED pstatus
     \/ /\ pstatus' = MagickFalse
        /\ ppc' = [ppc EXCEPT ![w] = "idle"]
        /\ UNCHANGED <<indexes, px>>
  /\ UNCHANGED <<pdepth, prows, prow, py, poffset, pqueue>>
  /\ UNCHANGED notPam

\* The queues one store of indexes[x] can reach: the pointer is read while
\* other workers write it, so the store goes through the value this worker
\* assigned (kept in a register) or the value the shared variable holds now.
IndexTargets(w) == {poffset[w], indexes}

\* At depth 8 or 16 ImportQuantumPixels fills the index queue of the view of
\* the calling worker; at the other depths the CMYK loop stores
\* indexes[x]=ScaleAnyToQuantum(pixel,range) for one x.
PamStoreIndex(w) ==
  /\ ppc[w] = "store"
  /\ px[w] < Columns + 1
  /\ IF pdepth \in {8, 16}
     THEN /\ pqueue' = [pqueue EXCEPT ![poffset[w]] =
                          [x \in 1..(Columns + 1) |-> poffset[w]]]
          /\ px' = [px EXCEPT ![w] = Columns + 1]
     ELSE /\ \E target \in IndexTargets(w) :
               pqueue' = [pqueue EXCEPT ![target][px[w] + 1] = poffset[w]]
          /\ px' = [px EXCEPT ![w] = px[w] + 1]
  /\ UNCHANGED <<indexes, pdepth, prows, prow, pstatus, py, ppc, poffset>>
  /\ UNCHANGED notPam

\* sync=SyncCacheViewAuthenticPixels(image_view,exception);
\* if (sync == MagickFalse) status=MagickFalse;
PamSyncRow(w) ==
  /\ ppc[w] = "store"
  /\ px[w] = Columns + 1
  /\ \E sync \in BOOLEAN :
       pstatus' = IF sync = MagickFalse THEN MagickFalse ELSE pstatus
  /\ ppc' = [ppc EXCEPT ![w] = "idle"]
  /\ UNCHANGED <<indexes, pdepth, prows, prow, py, poffset, px, pqueue>>
  /\ UNCHANGED notPam

NextPam ==
  \E w \in Workers :
    \/ PamDispatch(w)
    \/ PamCheckStatus(w)
    \/ PamTakeRow(w)
    \/ PamQueueRow(w)
    \/ PamStoreIndex(w)
    \/ PamSyncRow(w)

SpecPam == InitPam /\ [][NextPam]_vars

\* C13: in the PAM CMYK decode at depths other than 8 and 16 every entry of
\* the index queue of a row was stored by the worker that was assigned that
\* row: no worker stores indexes[x] into the queue of another worker's row.
C13_IndexQueueOwned ==
  \A r \in 0..(prows - 1) : \A x \in 1..Len(pqueue[r]) :
    pqueue[r][x] \in {-1, r}

\* ------------------------------------ PAM (P7) pixels, written then read

TupleTypes == {"Gray", "GrayAlpha", "RGB", "RGBA", "CMYK", "CMYKA"}
AlphaTypes == {"GrayAlpha", "RGBA", "CMYKA"}
GrayTypes == {"Gray", "GrayAlpha"}
CMYKTypes == {"CMYK", "CMYKA"}

\* The depths at which the loops of the case, not ExportQuantumPixels and
\* ImportQuantumPixels, convert the pixels.
LoopDepths == (1..16) \ {8, 16}

\* ScaleAnyToQuantum(quantum,range):
\*   (Quantum) (((MagickRealType) QuantumRange*quantum)/range+0.5)
ScaleAnyToQuantum(quantum, range) ==
  ToQuantum(((QuantumRange * quantum) \div range)
            + (IF 2 * ((QuantumRange * quantum) % range) >= range THEN 1 ELSE 0))

\* ScaleQuantumToAny(quantum,range):
\*   (QuantumAny) (((MagickRealType) range*quantum)/QuantumRange+0.5)
ScaleQuantumToAny(quantum, range) ==
  ((range * quantum) \div QuantumRange)
  + (IF 2 * ((range * quantum) % QuantumRange) >= QuantumRange THEN 1 ELSE 0)

\* PixelIntensityToQuantum(pixel):
\*   (Quantum) (0.299*red+0.587*green+0.114*blue+0.5)
PixelIntensityToQuantum(p) ==
  (299 * p.red + 587 * p.green + 114 * p.blue + 500) \div 1000

\* PopCharPixel((unsigned char) pixel,q) and
\* PopShortPixel(MSBEndian,(unsigned short) pixel,q): the bytes stored.
PopCharPixel(pixel) == <<pixel % 256>>
PopShortPixel(pixel) == <<(pixel % 65536) \div 256, pixel % 256>>
PopPixel(depth, pixel) ==
  IF depth <= 8 THEN PopCharPixel(pixel) ELSE PopShortPixel(pixel)

\* PushCharPixel, PushShortPixel(MSBEndian,...): sample n (from 1) of a row.
PushPixel(depth, bytes, n) ==
  IF depth <= 8 THEN bytes[n] ELSE 256 * bytes[2 * n - 1] + bytes[2 * n]

\* The samples a pixel is drawn from: both ends of the range and two inside.
SampleSet(range) == {0, 1, range \div 2, range}

\* The alpha bytes of the gray loops:
\*   pixel=(unsigned char) ScaleQuantumToAny(p->opacity,range);
GrayAlpha(depth, opacity) ==
  PopPixel(depth, ScaleQuantumToAny(opacity, GetQuantumRange(depth)) % 256)

\* The alpha bytes of the CMYK and RGB loops:
\*   pixel=ScaleQuantumToAny((Quantum) (QuantumRange-p->opacity),range);
ColourAlpha(depth, opacity) ==
  PopPixel(depth, ScaleQuantumToAny(QuantumRange - opacity,
                                    GetQuantumRange(depth)))

\* The bytes WritePNMImage stores for one pixel of a PAM row.
ExportPixel(type, depth, p) ==
  LET range == GetQuantumRange(depth)
      colour == CASE type \in GrayTypes ->
                       PopPixel(depth, ScaleQuantumToAny(
                                         PixelIntensityToQuantum(p), range))
                  [] type \in CMYKTypes ->
                       PopPixel(depth, ScaleQuantumToAny(p.red, range))
                       \o PopPixel(depth, ScaleQuantumToAny(p.green, range))
                       \o PopPixel(depth, ScaleQuantumToAny(p.blue, range))
                       \o PopPixel(depth, ScaleQuantumToAny(p.index, range))
                  [] OTHER ->
                       PopPixel(depth, ScaleQuantumToAny(p.red, range))
                       \o PopPixel(depth, ScaleQuantumToAny(p.green, range))
                       \o PopPixel(depth, ScaleQuantumToAny(p.blue, range))
      alpha == IF type \notin AlphaTypes THEN <<>>
               ELSE IF type \in GrayTypes THEN GrayAlpha(depth, p.opacity)
               ELSE ColourAlpha(depth, p.opacity)
  IN  colour \o alpha

\* The pixel ReadPNMImage decodes from the bytes of one pixel of a PAM row.
ImportPixel(type, depth, bytes) ==
  LET range == GetQuantumRange(depth)
      v(n) == ScaleAnyToQuantum(PushPixel(depth, bytes, n), range)
      colours == CASE type \in GrayTypes -> 1
                   [] type \in CMYKTypes -> 4
                   [] OTHER -> 3
  IN  [red |-> v(1),
       green |-> IF type \in GrayTypes THEN v(1) ELSE v(2),
       blue |-> IF type \in GrayTypes THEN v(1) ELSE v(3),
       index |-> IF type \in CMYKTypes THEN v(4) ELSE 0,
       opacity |-> IF type \in AlphaTypes THEN v(colours + 1) ELSE 0]

InitCodec ==
  /\ ReadIdle
  /\ AsciiIdle
  /\ WriteIdle
  /\ PamIdle
  /\ format = "7"
  /\ rows = 1
  /\ ctype \in TupleTypes
  /\ cdepth \in LoopDepths
  /\ \E s \in SampleSet(GetQuantumRange(cdepth)),
        a \in SampleSet(GetQuantumRange(cdepth)) :
       LET range == GetQuantumRange(cdepth)
           one == ScaleAnyToQuantum(s, range)
           other == IF ctype \in GrayTypes THEN one
                    ELSE ScaleAnyToQuantum(range - s, range)
       IN  cpixel = [red |-> one, green |-> other, blue |-> one,
                     index |-> IF ctype \in CMYKTypes THEN other ELSE 0,
                     opacity |-> IF ctype \in AlphaTypes
                                 THEN ScaleAnyToQuantum(a, range) ELSE 0]
  /\ cbytes = <<>>
  /\ cback = NoPixel
  /\ cpc = "pixel"
  /\ ExtentIdle
  /\ BilevelIdle
  /\ PfmIdle
  /\ TiffAlphaIdle
  /\ QuantumIdle
  /\ PsIdle
  /\ TypeIdle
  /\ RegistryIdle
  /\ TileIdle
  /\ PpmIdle
  /\ RgbaIdle
  /\ HandlersIdle
  /\ KeyIdle

\* WritePNMImage, case '7': one pixel of the row loop.
WritePamPixel ==
  /\ cpc = "pixel"
  /\ cbytes' = ExportPixel(ctype, cdepth, cpixel)
  /\ cpc' = "exported"
  /\ UNCHANGED <<ctype, cdepth, cpixel, cback>>
  /\ UNCHANGED notCodec

\* ReadPNMImage, case '7': one pixel of the row loop.
ReadPamPixel ==
  /\ cpc = "exported"
  /\ cback' = ImportPixel(ctype, cdepth, cbytes)
  /\ cpc' = "imported"
  /\ UNCHANGED <<ctype, cdepth, cpixel, cbytes>>
  /\ UNCHANGED notCodec

NextCodec ==
  \/ WritePamPixel
  \/ ReadPamPixel

SpecCodec == InitCodec /\ [][NextCodec]_vars

\* C14: for PAM at every depth in 1..16 other than 8 and 16 and every tuple
\* type, the pixel ReadPNMImage decodes from what WritePNMImage stored has
\* the same sample in every channel, opacity included, as the pixel written.
C14_PamRoundTrip == cpc = "imported" => cback = cpixel

\* C15: the PAM writer stores the alpha sample as QuantumRange - opacity
\* rescaled to the sample range, for every tuple type with alpha and for
\* samples of one and of two bytes, at the full width of the sample.
C15_AlphaInverted ==
  (cpc \in {"exported", "imported"} /\ ctype \in AlphaTypes) =>
    LET n == Len(cbytes) \div (IF cdepth <= 8 THEN 1 ELSE 2)
    IN  PushPixel(cdepth, cbytes, n) =
          ScaleQuantumToAny(QuantumRange - cpixel.opacity,
                            GetQuantumRange(cdepth))

\* --------------------------------------- raw rows: depth and row extent

\* The raw formats whose rows are whole samples.
SampleFormats == {"5", "6", "7"}

\* The maximum values the headers declare: for every depth d in 1..16 the
\* largest value of the depth, 2^d - 1, and the smallest, 2^(d-1).
HeaderMaxValues == {2^d - 1 : d \in 1..16} \cup {2^(d - 1) : d \in 1..16}

\* (image->depth <= 8 ? 1 : 2) with a depth of 8 taken for two bytes.
BytesPerSampleOver7(depth) == IF depth < 8 THEN 1 ELSE 2

\* (image->depth <= 8 ? 1 : 2): the bytes of one sample.
BytesPerSample(depth) == IF depth <= 8 THEN 1 ELSE 2

\* channels, as the PAM case counts them from quantum_type and image->matte;
\* 1 for P5 and 3 for P6.
Channels(f, type) ==
  CASE f = "5" -> 1
    [] f = "6" -> 3
    [] OTHER -> (CASE type \in GrayTypes -> 1
                   [] type \in CMYKTypes -> 4
                   [] OTHER -> 3)
                + (IF type \in AlphaTypes THEN 1 ELSE 0)

\* The samples the decode loop of a case takes from the row for one pixel:
\* its PushCharPixel or PushShortPixel calls.
PushesPerPixel(f, type) ==
  CASE f = "5" -> 1
    [] f = "6" -> 1 + 1 + 1
    [] OTHER -> (IF type \in GrayTypes THEN 1
                 ELSE IF type \in CMYKTypes THEN 1 + 1 + 1 + 1
                 ELSE 1 + 1 + 1)
                + (IF type \in AlphaTypes THEN 1 ELSE 0)

InitExtent ==
  /\ ReadIdle
  /\ AsciiIdle
  /\ WriteIdle
  /\ PamIdle
  /\ CodecIdle
  /\ format = "none"
  /\ rows = 1
  /\ eformat \in SampleFormats
  /\ etype \in (IF eformat = "7" THEN TupleTypes
                ELSE IF eformat = "5" THEN {"Gray"} ELSE {"RGB"})
  /\ emax \in HeaderMaxValues
  /\ ecols \in 1..(Columns + 1)
  /\ edepth = 0
  /\ eextent = 0
  /\ econsumed = 0
  /\ epc = "header"
  /\ BilevelIdle
  /\ PfmIdle
  /\ TiffAlphaIdle
  /\ QuantumIdle
  /\ PsIdle
  /\ TypeIdle
  /\ RegistryIdle
  /\ TileIdle
  /\ PpmIdle
  /\ RgbaIdle
  /\ HandlersIdle
  /\ KeyIdle

\* for (depth=1; GetQuantumRange(depth) < max_value; depth++) ;
\* image->depth=depth;
SetDepth ==
  /\ epc = "header"
  /\ edepth' = DepthFrom(1, emax)
  /\ epc' = "case"
  /\ UNCHANGED <<eformat, etype, emax, ecols, eextent, econsumed>>
  /\ UNCHANGED notExtent

\* extent=(image->depth <= 8 ? 1 : 2)*image->columns; with 3* for P6 and
\* channels* for P7.
SetExtent ==
  /\ epc = "case"
  /\ eextent' = Channels(eformat, etype) * BytesPerSample(edepth) * ecols
  /\ epc' = "row"
  /\ UNCHANGED <<eformat, etype, emax, ecols, edepth, econsumed>>
  /\ UNCHANGED notExtent

\* One row decoded: ImportQuantumPixels at depth 8 and 16 takes the extent;
\* the loops of the case advance p by one sample a Push call.
DecodeRow ==
  /\ epc = "row"
  /\ econsumed' =
       IF edepth \in {8, 16} THEN eextent
       ELSE ecols * PushesPerPixel(eformat, etype)
                  * (IF edepth <= 8 THEN 1 ELSE 2)
  /\ epc' = "decoded"
  /\ UNCHANGED <<eformat, etype, emax, ecols, edepth, eextent>>
  /\ UNCHANGED notExtent

NextExtent ==
  \/ SetDepth
  \/ SetExtent
  \/ DecodeRow

SpecExtent == InitExtent /\ [][NextExtent]_vars

\* C16 (as stated): the bytes read for a row of P5, P6 or P7 are
\* ceil(columns * channels * depth / 8), depth the least d with
\* 2^d - 1 >= max_value.
C16_BitPackedExtent ==
  epc \in {"row", "decoded"} =>
    eextent = (ecols * Channels(eformat, etype) * edepth + 7) \div 8

\* C16 (amended): depth is the least d in 1..16 with 2^d - 1 >= max_value,
\* and the bytes read for a row are columns * channels * ceil(depth / 8),
\* every sample in whole bytes; the decode loop takes exactly those bytes.
C16_WholeSampleExtent ==
  /\ epc # "header" =>
       /\ edepth \in 1..16
       /\ 2^edepth - 1 >= emax
       /\ \A d \in 1..(edepth - 1) : 2^d - 1 < emax
  /\ epc \in {"row", "decoded"} =>
       eextent = ecols * Channels(eformat, etype) * ((edepth + 7) \div 8)
  /\ epc = "decoded" => econsumed = eextent

C16_Witness ==
  /\ epc = "decoded"
  /\ eformat = "7"
  /\ etype = "CMYKA"
  /\ edepth = 12
  /\ ecols = Columns + 1
  /\ eextent = 10 * ecols

\* ------------------------------------ PBM (P1) rows, written then read

\* The intensities of the pixels written: black, white and the values about
\* the threshold of the writer.
BilevelSamples == {0, 1, (QuantumRange \div 2) - 1, QuantumRange \div 2,
                   (QuantumRange \div 2) + 1, QuantumRange}

\* The widths of the rows written: short rows and one that fills a line.
BilevelWidths == {1, 2, HexCols}

IsDigit(c) == c \in {"0", "1", "2", "3", "4", "5", "6", "7", "8", "9"}

\* The character of a pixel when white is written as 1.
BilevelCharMaxIsWhite(pixel) ==
  IF pixel >= QuantumRange \div 2 THEN "1" ELSE "0"

\* (unsigned char) (pixel >= (Quantum) (QuantumRange/2) ? '0' : '1')
BilevelChar(pixel) ==
  IF pixel >= QuantumRange \div 2 THEN "0" ELSE "1"

\* PNMInteger: the comment from '#' to the end of the line is skipped.
RECURSIVE SkipComment(_, _)
SkipComment(text, pos) ==
  IF pos > Len(text) THEN pos
  ELSE IF text[pos] = "\n" THEN pos + 1
  ELSE SkipComment(text, pos + 1)

\* PNMInteger(image,2): bytes are read up to the first digit, and the digit
\* is the value; 0 at the end of the blob. pos is the next byte to read.
RECURSIVE PNMIntegerBase2(_, _)
PNMIntegerBase2(text, pos) ==
  IF pos > Len(text) THEN [value |-> 0, pos |-> pos, digit |-> FALSE]
  ELSE IF text[pos] = "#" THEN PNMIntegerBase2(text, SkipComment(text, pos + 1))
  ELSE IF IsDigit(text[pos])
       THEN [value |-> CASE text[pos] = "0" -> 0
                         [] text[pos] = "1" -> 1
                         [] OTHER -> 2,
             pos |-> pos + 1, digit |-> TRUE]
  ELSE PNMIntegerBase2(text, pos + 1)

InitBilevel ==
  /\ ReadIdle
  /\ AsciiIdle
  /\ WriteIdle
  /\ PamIdle
  /\ CodecIdle
  /\ ExtentIdle
  /\ PfmIdle
  /\ TiffAlphaIdle
  /\ QuantumIdle
  /\ PsIdle
  /\ TypeIdle
  /\ RegistryIdle
  /\ TileIdle
  /\ PpmIdle
  /\ RgbaIdle
  /\ HandlersIdle
  /\ KeyIdle
  /\ format = "1"
  /\ rows = 1
  /\ \E n \in BilevelWidths, a \in BilevelSamples, b \in BilevelSamples :
       brow = [i \in 1..n |-> IF i % 2 = 1 THEN a ELSE b]
  /\ btext = <<>>
  /\ bq = 0
  /\ bpos = 1
  /\ bback = <<>>
  /\ bpc = "write"

\* WritePNMImage, case '1': one pixel of the row, the digit and a space, and
\* the end of the line when the staged text is long enough.
WriteBilevelPixel ==
  /\ bpc = "write"
  /\ Len(btext) - Cardinality({i \in 1..Len(btext) : btext[i] = "\n"})
       < 2 * Len(brow)
  /\ LET x == (Len(btext)
               - Cardinality({i \in 1..Len(btext) : btext[i] = "\n"})) \div 2
         pixel == PixelIntensityToQuantum(
                    [red |-> brow[x + 1], green |-> brow[x + 1],
                     blue |-> brow[x + 1]])
     IN  IF bq + 2 + 2 >= 80
         THEN /\ btext' = btext \o <<BilevelChar(pixel), " ", "\n">>
              /\ bq' = 0
         ELSE /\ btext' = btext \o <<BilevelChar(pixel), " ">>
              /\ bq' = bq + 2
  /\ UNCHANGED <<brow, bpos, bback, bpc>>
  /\ UNCHANGED notBilevel

\* WritePNMImage, case '1': after the row, what is staged is written with
\* the end of the line.
EndBilevelWrite ==
  /\ bpc = "write"
  /\ Len(btext) - Cardinality({i \in 1..Len(btext) : btext[i] = "\n"})
       = 2 * Len(brow)
  /\ btext' = IF bq # 0 THEN btext \o <<"\n">> ELSE btext
  /\ bq' = IF bq # 0 THEN bq + 1 ELSE bq
  /\ bpc' = "read"
  /\ UNCHANGED <<brow, bpos, bback>>
  /\ UNCHANGED notBilevel

\* ReadPNMImage, case '1': one pixel of the row,
\*   q->red=(Quantum) (PNMInteger(image,2) == 0 ? QuantumRange : 0);
ReadBilevelPixel ==
  /\ bpc = "read"
  /\ Len(bback) < Len(brow)
  /\ LET r == PNMIntegerBase2(btext, bpos)
     IN  /\ bback' = Append(bback, IF r.value = 0 THEN QuantumRange ELSE 0)
         /\ bpos' = r.pos
  /\ UNCHANGED <<brow, btext, bq, bpc>>
  /\ UNCHANGED notBilevel

\* ReadPNMImage, case '1': the end of the row loop.
EndBilevelRead ==
  /\ bpc = "read"
  /\ Len(bback) = Len(brow)
  /\ bpc' = "done"
  /\ UNCHANGED <<brow, btext, bq, bpos, bback>>
  /\ UNCHANGED notBilevel

NextBilevel ==
  \/ WriteBilevelPixel
  \/ EndBilevelWrite
  \/ ReadBilevelPixel
  \/ EndBilevelRead

SpecBilevel == InitBilevel /\ [][NextBilevel]_vars

\* The digits of a text, in order.
DigitsOf(text) == SelectSeq(text, IsDigit)

\* C17: PBM is min-is-white. The P1 decoder maps digit 1 to 0 and digit 0 to
\* QuantumRange, one pixel a digit; the P1 encoder writes '1' exactly for the
\* pixels whose intensity is below QuantumRange/2 (the integer 32767 of the
\* code); and a row of pixels that are all 0 or QuantumRange is read back as
\* written.
C17_MinIsWhite ==
  /\ \A i \in 1..Len(DigitsOf(btext)) :
       /\ i <= Len(brow)
       /\ DigitsOf(btext)[i] = "1" <=> brow[i] < QuantumRange \div 2
       /\ DigitsOf(btext)[i] \in {"0", "1"}
  /\ bpc # "write" => Len(DigitsOf(btext)) = Len(brow)
  /\ \A i \in 1..Len(bback) :
       /\ DigitsOf(btext)[i] = "1" => bback[i] = 0
       /\ DigitsOf(btext)[i] = "0" => bback[i] = QuantumRange
  /\ bpc = "done" =>
       /\ Len(bback) = Len(brow)
       /\ (\A i \in 1..Len(brow) : brow[i] \in {0, QuantumRange}) => bback = brow

C17_Witness ==
  /\ bpc = "done"
  /\ Len(brow) = HexCols
  /\ brow[1] = 0
  /\ brow[2] = QuantumRange
  /\ bback = brow
  /\ \E i \in 1..(Len(btext) - 1) : btext[i] = "\n"

\* ------------------------------------- PFM rows, written then read

Endians == {"UndefinedEndian", "LSBEndian", "MSBEndian"}

\* The scale line, in tenths, when the sign is taken from MSBEndian.
ScaleLineOfMSB(endian) == IF endian # "MSBEndian" THEN 10 ELSE -10

\* WriteBlobString(image,image->endian != LSBEndian ? "1.0\n" : "-1.0\n"):
\* the scale line, in tenths.
ScaleLine(endian) == IF endian # "LSBEndian" THEN 10 ELSE -10

\* image->endian=quantum_scale < 0.0 ? LSBEndian : MSBEndian;
EndianOfScale(scaleline) == IF scaleline < 0 THEN "LSBEndian" ELSE "MSBEndian"

InitPfm ==
  /\ ReadIdle
  /\ AsciiIdle
  /\ WriteIdle
  /\ PamIdle
  /\ CodecIdle
  /\ ExtentIdle
  /\ BilevelIdle
  /\ TiffAlphaIdle
  /\ QuantumIdle
  /\ PsIdle
  /\ TypeIdle
  /\ RegistryIdle
  /\ TileIdle
  /\ PpmIdle
  /\ RgbaIdle
  /\ HandlersIdle
  /\ KeyIdle
  /\ format = "f"
  /\ rows \in 1..MaxRows
  /\ fendian \in Endians
  /\ fscale = 0
  /\ fy = rows - 1
  /\ fstream = <<>>
  /\ frendian = "UndefinedEndian"
  /\ frow = 0
  /\ fnexty = 0
  /\ fpc = [w \in Workers |-> "wait"]
  /\ foffset = [w \in Workers |-> 0]
  /\ fbuf = [w \in Workers |-> -1]
  /\ fimage = [r \in 0..(rows - 1) |-> -1]
  /\ fphase = "header"

\* WritePNMImage, case 'f': the scale line.
WritePfmHeader ==
  /\ fphase = "header"
  /\ fscale' = ScaleLine(fendian)
  /\ fphase' = "rows"
  /\ UNCHANGED <<fendian, fy, fstream, frendian, frow, fnexty, fpc, foffset,
                 fbuf, fimage>>
  /\ UNCHANGED notPfm

\* WritePNMImage, case 'f': for (y=rows-1; y >= 0; y--) the row y is
\* exported and written.
WritePfmRow ==
  /\ fphase = "rows"
  /\ fy >= 0
  /\ fstream' = Append(fstream, fy)
  /\ fy' = fy - 1
  /\ UNCHANGED <<fendian, fscale, frendian, frow, fnexty, fpc, foffset, fbuf,
                 fimage, fphase>>
  /\ UNCHANGED notPfm

\* ReadPNMImage: the scale line is read and case 'f' sets image->endian;
\* the workers start.
ReadPfmHeader ==
  /\ fphase = "rows"
  /\ fy < 0
  /\ frendian' = EndianOfScale(fscale)
  /\ fpc' = [w \in Workers |-> "idle"]
  /\ fphase' = "read"
  /\ UNCHANGED <<fendian, fscale, fy, fstream, frow, fnexty, foffset, fbuf,
                 fimage>>
  /\ UNCHANGED notPfm

\* ReadPNMImage, case 'f': a worker takes the next y of the parallel loop.
PfmDispatch(w) ==
  /\ fphase = "read"
  /\ fpc[w] = "idle"
  /\ \/ /\ fnexty < rows
        /\ fnexty' = fnexty + 1
        /\ fpc' = [fpc EXCEPT ![w] = "take"]
     \/ /\ fnexty >= rows
        /\ fnexty' = fnexty
        /\ fpc' = [fpc EXCEPT ![w] = "exit"]
  /\ UNCHANGED <<fendian, fscale, fy, fstream, frendian, frow, foffset, fbuf,
                 fimage, fphase>>
  /\ UNCHANGED notPfm

\* ReadPNMImage, case 'f': the critical section, ReadBlob and offset=row++.
PfmTakeRow(w) ==
  /\ fpc[w] = "take"
  /\ fbuf' = [fbuf EXCEPT ![w] = fstream[frow + 1]]
  /\ foffset' = [foffset EXCEPT ![w] = frow]
  /\ frow' = frow + 1
  /\ fpc' = [fpc EXCEPT ![w] = "store"]
  /\ UNCHANGED <<fendian, fscale, fy, fstream, frendian, fnexty, fimage,
                 fphase>>
  /\ UNCHANGED notPfm

\* ReadPNMImage, case 'f': q=QueueCacheViewAuthenticPixels(image_view,0,
\* (long) (image->rows-offset-1),...), the import and the sync.
PfmStoreRow(w) ==
  /\ fpc[w] = "store"
  /\ fimage' = [fimage EXCEPT ![TargetRow(foffset[w])] = fbuf[w]]
  /\ fpc' = [fpc EXCEPT ![w] = "idle"]
  /\ UNCHANGED <<fendian, fscale, fy, fstream, frendian, frow, fnexty,
                 foffset, fbuf, fphase>>
  /\ UNCHANGED notPfm

NextPfm ==
  \/ WritePfmHeader
  \/ WritePfmRow
  \/ ReadPfmHeader
  \/ \E w \in Workers :
       \/ PfmDispatch(w)
       \/ PfmTakeRow(w)
       \/ PfmStoreRow(w)

SpecPfm == InitPfm /\ [][NextPfm]_vars

\* C18: the k-th row of a PFM stream (k from 0) is image row rows-1-k in
\* WritePNMImage and, under every interleaving of the workers, in
\* ReadPNMImage; the writer writes a negative scale exactly when the image
\* is LSB-endian and the reader takes LSB-endian exactly when the scale is
\* negative.
C18_PfmRowsAndEndian ==
  /\ \A k \in 0..(Len(fstream) - 1) : fstream[k + 1] = rows - 1 - k
  /\ \A r \in 0..(rows - 1) : fimage[r] # -1 => fimage[r] = r
  /\ \A w \in Workers :
       fpc[w] = "store" => fbuf[w] = rows - 1 - foffset[w]
  /\ fphase # "header" => (fscale < 0 <=> fendian = "LSBEndian")
  /\ fphase = "read" =>
       /\ frendian = "LSBEndian" <=> fscale < 0
       /\ frendian = "LSBEndian" <=> fendian = "LSBEndian"

C18_Witness ==
  /\ fphase = "read"
  /\ rows = MaxRows
  /\ fendian = "LSBEndian"
  /\ frendian = "LSBEndian"
  /\ \A r \in 0..(rows - 1) : fimage[r] = r
  /\ \E w \in Workers : foffset[w] = 0 /\ fpc[w] = "exit"
  /\ \E w \in Workers : foffset[w] # 0 /\ fpc[w] = "exit"

\* ------------------------------------- TIFF alpha association

\* sample_info[0]: EXTRASAMPLE_UNSPECIFIED, EXTRASAMPLE_ASSOCALPHA,
\* EXTRASAMPLE_UNASSALPHA.
ExtraSampleTags == {"UNSPECIFIED", "ASSOCALPHA", "UNASSALPHA"}

\* GetImageOption(image_info,"tiff:alpha"): NULL or the option's value.
AlphaOptions == {"NULL", "associated", "unassociated"}

Photometrics == {"RGB", "MINISBLACK"}

InitTiffAlpha ==
  /\ ReadIdle
  /\ AsciiIdle
  /\ WriteIdle
  /\ PamIdle
  /\ CodecIdle
  /\ ExtentIdle
  /\ BilevelIdle
  /\ PfmIdle
  /\ QuantumIdle
  /\ PsIdle
  /\ TypeIdle
  /\ RegistryIdle
  /\ TileIdle
  /\ PpmIdle
  /\ RgbaIdle
  /\ HandlersIdle
  /\ KeyIdle
  /\ format = "none"
  /\ rows = 1
  /\ textra \in 0..2
  /\ tsample \in ExtraSampleTags
  /\ tspp \in {1, 3, 4, 5}
  /\ tphoto \in Photometrics
  /\ toption \in AlphaOptions
  /\ tmatte = MagickFalse
  /\ tassoc = MagickFalse
  /\ talpha = "UndefinedQuantumAlpha"
  /\ tproperty = "NULL"
  /\ twsample = "NULL"
  /\ twalpha = "UndefinedQuantumAlpha"
  /\ tpc = "extra"

\* ReadTIFFImage: associated_alpha=MagickFalse; ... the extra samples.
ReadExtraSamples ==
  /\ tpc = "extra"
  /\ IF textra = 0
       THEN /\ tmatte' = (IF tspp = 4 /\ tphoto = "RGB" THEN MagickTrue
                          ELSE tmatte)
            /\ tassoc' = MagickFalse
            /\ talpha' = talpha
       ELSE /\ tmatte' = (IF \/ tspp > 3
                             \/ tsample = "UNASSALPHA"
                             \/ tsample = "ASSOCALPHA"
                            THEN MagickTrue ELSE tmatte)
            /\ tassoc' = (IF tsample = "ASSOCALPHA" THEN MagickTrue
                          ELSE MagickFalse)
            /\ talpha' = (IF tsample = "ASSOCALPHA"
                            THEN "DisassociatedQuantumAlpha" ELSE talpha)
  /\ tpc' = "option"
  /\ UNCHANGED <<textra, tsample, tspp, tphoto, toption, tproperty, twsample,
                 twalpha>>
  /\ UNCHANGED notTiffAlpha

\* ReadTIFFImage: option=GetImageOption(image_info,"tiff:alpha") and
\* SetImageProperty(image,"tiff:alpha",...).
ReadAlphaOption ==
  /\ tpc = "option"
  /\ LET associated_alpha ==
           IF toption # "NULL"
             THEN (IF toption = "associated" THEN MagickTrue ELSE MagickFalse)
             ELSE tassoc
     IN /\ tassoc' = associated_alpha
        /\ tproperty' = (IF tmatte # MagickFalse
                           THEN (IF associated_alpha # MagickFalse
                                   THEN "associated" ELSE "unassociated")
                           ELSE tproperty)
  /\ tpc' = "read"
  /\ UNCHANGED <<textra, tsample, tspp, tphoto, toption, tmatte, talpha,
                 twsample, twalpha>>
  /\ UNCHANGED notTiffAlpha

\* WriteTIFFImage: if (image->matte != MagickFalse) { ... } for the image
\* read.
WriteAlpha ==
  /\ tpc = "read"
  /\ LET sample_info ==
           IF tproperty # "NULL" /\ tproperty = "associated"
             THEN "ASSOCALPHA" ELSE "UNASSALPHA"
     IN IF tmatte # MagickFalse
          THEN /\ twsample' = sample_info
               /\ twalpha' = (IF sample_info = "ASSOCALPHA"
                                THEN "AssociatedQuantumAlpha" ELSE twalpha)
          ELSE UNCHANGED <<twsample, twalpha>>
  /\ tpc' = "written"
  /\ UNCHANGED <<textra, tsample, tspp, tphoto, toption, tmatte, tassoc,
                 talpha, tproperty>>
  /\ UNCHANGED notTiffAlpha

NextTiffAlpha ==
  \/ ReadExtraSamples
  \/ ReadAlphaOption
  \/ WriteAlpha

SpecTiffAlpha == InitTiffAlpha /\ [][NextTiffAlpha]_vars

\* C19: once ReadTIFFImage has set the tiff:alpha property, the importer is
\* set to un-premultiply (SetQuantumAlphaType was called) exactly when the
\* property is "associated", for every extra-samples count, first
\* extra-sample tag, samples per pixel and tiff:alpha option; and
\* WriteTIFFImage sets premultiplication exactly when the property is
\* "associated".
C19_AlphaConfigured ==
  /\ tpc \in {"read", "written"} =>
       (talpha = "DisassociatedQuantumAlpha" <=> tproperty = "associated")
  /\ tpc = "written" =>
       (twalpha = "AssociatedQuantumAlpha" <=> tproperty = "associated")

\* ------------------------------------- the QuantumInfo of one operation

\* The frames (directories) of the TIFF file read.
MaxFrames == 3

QuantumOps == {"ReadTIFFImage", "ReadPNMImage", "WritePNMImage"}

InitQuantum ==
  /\ ReadIdle
  /\ AsciiIdle
  /\ WriteIdle
  /\ PamIdle
  /\ CodecIdle
  /\ ExtentIdle
  /\ BilevelIdle
  /\ PfmIdle
  /\ TiffAlphaIdle
  /\ PsIdle
  /\ TypeIdle
  /\ RegistryIdle
  /\ TileIdle
  /\ PpmIdle
  /\ RgbaIdle
  /\ HandlersIdle
  /\ KeyIdle
  /\ format = "none"
  /\ rows = 1
  /\ qop \in QuantumOps
  /\ qframes \in (IF qop = "ReadTIFFImage" THEN 1..MaxFrames ELSE {1})
  /\ qlimit \in (IF qop = "ReadTIFFImage" THEN 0..MaxFrames ELSE {0})
  /\ qping \in (IF qop = "ReadTIFFImage" THEN {MagickFalse, MagickTrue}
                ELSE {MagickFalse})
  /\ qscene = 0
  /\ qacquired = 0
  /\ qdestroyed = 0
  /\ qexit = "none"
  /\ qpc = "top"

\* ReadTIFFImage: quantum_info=AcquireQuantumInfo(image_info,image) at the
\* top of the frame loop; NULL throws.
TiffAcquire ==
  /\ qop = "ReadTIFFImage"
  /\ qpc = "top"
  /\ \/ /\ qpc' = "returned"
        /\ qexit' = "error"
        /\ qacquired' = qacquired
     \/ /\ qpc' = "configure"
        /\ qexit' = qexit
        /\ qacquired' = qacquired + 1
  /\ UNCHANGED <<qop, qframes, qlimit, qping, qscene, qdestroyed>>
  /\ UNCHANGED notQuantum

\* ReadTIFFImage: SetQuantumFormat, the colormap and the ping branch.
TiffConfigure ==
  /\ qop = "ReadTIFFImage"
  /\ qpc = "configure"
  /\ \/ /\ qpc' = "returned"
        /\ qexit' = "error"
     \/ /\ qping # MagickFalse
        /\ IF qlimit # 0 /\ qscene >= qlimit - 1
             THEN qpc' = "returned" /\ qexit' = "scene limit"
             ELSE qpc' = "next" /\ qexit' = qexit
     \/ /\ qping = MagickFalse
        /\ qpc' = "decode"
        /\ qexit' = qexit
  /\ UNCHANGED <<qop, qframes, qlimit, qping, qscene, qacquired, qdestroyed>>
  /\ UNCHANGED notQuantum

\* ReadTIFFImage: switch (method): a buffer that cannot be allocated, or an
\* image that is not tiled, throws.
TiffDecode ==
  /\ qop = "ReadTIFFImage"
  /\ qpc = "decode"
  /\ \/ /\ qpc' = "returned"
        /\ qexit' = "error"
     \/ /\ qpc' = "next"
        /\ qexit' = qexit
  /\ UNCHANGED <<qop, qframes, qlimit, qping, qscene, qacquired, qdestroyed>>
  /\ UNCHANGED notQuantum

\* ReadTIFFImage: next_tiff_frame to } while (status == MagickTrue) and the
\* return.
TiffNextFrame ==
  /\ qop = "ReadTIFFImage"
  /\ qpc = "next"
  /\ IF qlimit # 0 /\ qscene >= qlimit - 1
       THEN /\ qpc' = "returned"
            /\ qexit' = "scene limit"
            /\ UNCHANGED <<qframes, qscene, qdestroyed>>
       ELSE IF qframes > 1
         THEN \/ /\ qpc' = "returned"
                 /\ qexit' = "error"
                 /\ UNCHANGED <<qframes, qscene, qdestroyed>>
              \/ /\ qpc' = "returned"
                 /\ qexit' = "cancel"
                 /\ qframes' = qframes - 1
                 /\ qscene' = qscene + 1
                 /\ qdestroyed' = qdestroyed
              \/ /\ qpc' = "top"
                 /\ qexit' = qexit
                 /\ qframes' = qframes - 1
                 /\ qscene' = qscene + 1
                 /\ qdestroyed' = qdestroyed + 1
         ELSE /\ qpc' = "returned"
              /\ qexit' = "normal"
              /\ qdestroyed' = qdestroyed + 1
              /\ UNCHANGED <<qframes, qscene>>
  /\ UNCHANGED <<qop, qlimit, qping, qacquired>>
  /\ UNCHANGED notQuantum

\* ReadPNMImage and WritePNMImage, case 'f': AcquireQuantumInfo; NULL throws.
PnmAcquire ==
  /\ qop \in {"ReadPNMImage", "WritePNMImage"}
  /\ qpc = "top"
  /\ \/ /\ qpc' = "returned"
        /\ qexit' = "error"
        /\ qacquired' = qacquired
     \/ /\ qpc' = "configure"
        /\ qexit' = qexit
        /\ qacquired' = qacquired + 1
  /\ UNCHANGED <<qop, qframes, qlimit, qping, qscene, qdestroyed>>
  /\ UNCHANGED notQuantum

\* ReadPNMImage, case 'f': SetQuantumDepth and SetQuantumFormat;
\* WritePNMImage, case 'f': SetQuantumFormat; a status of MagickFalse throws.
PnmConfigure ==
  /\ qop \in {"ReadPNMImage", "WritePNMImage"}
  /\ qpc = "configure"
  /\ \/ /\ qpc' = "returned"
        /\ qexit' = "error"
     \/ /\ qpc' = "rows"
        /\ qexit' = qexit
  /\ UNCHANGED <<qop, qframes, qlimit, qping, qscene, qacquired, qdestroyed>>
  /\ UNCHANGED notQuantum

\* ReadPNMImage and WritePNMImage, case 'f': the row loop, then
\* quantum_info=DestroyQuantumInfo(quantum_info); the reader throws after it
\* when status is MagickFalse.
PnmRows ==
  /\ qop \in {"ReadPNMImage", "WritePNMImage"}
  /\ qpc = "rows"
  /\ qdestroyed' = qdestroyed + 1
  /\ qpc' = "returned"
  /\ qexit' \in (IF qop = "ReadPNMImage" THEN {"normal", "error"}
                 ELSE {"normal"})
  /\ UNCHANGED <<qop, qframes, qlimit, qping, qscene, qacquired>>
  /\ UNCHANGED notQuantum

NextQuantum ==
  \/ TiffAcquire
  \/ TiffConfigure
  \/ TiffDecode
  \/ TiffNextFrame
  \/ PnmAcquire
  \/ PnmConfigure
  \/ PnmRows

SpecQuantum == InitQuantum /\ [][NextQuantum]_vars

\* C20: when ReadTIFFImage, ReadPNMImage or WritePNMImage has returned, on
\* the normal end, the scene-limit break, the cancellation break or an error
\* exit, every QuantumInfo it acquired has been destroyed exactly once.
C20_QuantumInfoDestroyed ==
  /\ qdestroyed <= qacquired
  /\ qpc = "returned" => qdestroyed = qacquired

\* ------------------------------------- WritePSImage, the pixel dumps

\* Widths of the rows dumped: every row of 1..PsCols pixels, and a row of
\* one colour of RunCols pixels.
PsCols == 3
RunCols == 257

OpaqueOpacity == 0
TransparentOpacity == QuantumRange

\* The pixels of a DirectClass image (red = green = blue = colour) and of
\* a PseudoClass one (colour is the colormap index).
DirectPixels ==
  [colour : {0, 32896}, opacity : {OpaqueOpacity, TransparentOpacity}]
PseudoPixels == [colour : {0, 1}, opacity : {OpaqueOpacity}]

PsRows(pixelset) ==
  UNION {[1..n -> pixelset] : n \in 1..PsCols}
    \cup {[i \in 1..RunCols |-> pel] : pel \in pixelset}

\* An image of one row, or of two rows the second of one colour.
PsImages(pixelset) ==
  {<<r>> : r \in PsRows(pixelset)}
    \cup {<<r, [i \in 1..Len(r) |-> pel]>> :
            r \in {t \in PsRows(pixelset) : Len(t) <= PsCols},
            pel \in pixelset}

\* The colour bytes of a pixel, the three of them equal: 0xff when the
\* image has a matte channel and opacity is TransparentOpacity, else
\* ScaleQuantumToChar of the colour.
PopColour(matte, opacity, colour) ==
  IF matte # MagickFalse /\ opacity = TransparentOpacity
    THEN 255
    ELSE ScaleQuantumToChar(colour)

\* #define WriteRunlengthPacket(image,pixel,length,p): the colour is
\* pixel's, the opacity tested is p->opacity.
WriteRunlengthPacket(y, pixel, length, popacity) ==
  [row |-> y, colour |-> PopColour(smatte, popacity, pixel.colour),
   length |-> Min(length, 255)]

\* PseudoClass: q=PopHexPixel(hex_digits,index,q); then the length.
WriteIndexPacket(y, index, length) ==
  [row |-> y, colour |-> index, length |-> Min(length, 255)]

InitPs ==
  /\ ReadIdle
  /\ AsciiIdle
  /\ WriteIdle
  /\ PamIdle
  /\ CodecIdle
  /\ ExtentIdle
  /\ BilevelIdle
  /\ PfmIdle
  /\ TiffAlphaIdle
  /\ QuantumIdle
  /\ TypeIdle
  /\ RegistryIdle
  /\ TileIdle
  /\ PpmIdle
  /\ RgbaIdle
  /\ HandlersIdle
  /\ KeyIdle
  /\ format = "none"
  /\ rows = 1
  /\ sclass \in {"DirectClass", "PseudoClass"}
  /\ smatte \in (IF sclass = "DirectClass" THEN {MagickFalse, MagickTrue}
                 ELSE {MagickFalse})
  /\ simage \in (IF sclass = "DirectClass" THEN PsImages(DirectPixels)
                 ELSE PsImages(PseudoPixels))
  /\ sy = 0
  /\ sx = 0
  /\ spixel = simage[1][1]
  /\ slength = 255
  /\ spackets = <<>>
  /\ sdump = <<>>
  /\ spc = "rle"

\* WritePSImage, case RLECompression: one pass of for (x=0; x < columns; x++).
RunlengthPixel ==
  /\ spc = "rle"
  /\ sx < Len(simage[sy + 1])
  /\ LET p == simage[sy + 1][sx + 1]
         same == IF sclass = "DirectClass"
                   THEN p.colour = spixel.colour /\ p.opacity = spixel.opacity
                   ELSE p.colour = spixel.colour
     IN /\ IF same /\ slength < 255 /\ sx < Len(simage[sy + 1]) - 1
             THEN /\ slength' = slength + 1
                  /\ spackets' = spackets
             ELSE /\ slength' = 0
                  /\ spackets' =
                       IF sx > 0
                         THEN Append(spackets,
                                IF sclass = "DirectClass"
                                  THEN WriteRunlengthPacket(sy, spixel,
                                         slength, p.opacity)
                                  ELSE WriteIndexPacket(sy, spixel.colour,
                                         slength))
                         ELSE spackets
        /\ spixel' = p
  /\ sx' = sx + 1
  /\ UNCHANGED <<sclass, smatte, simage, sy, sdump, spc>>
  /\ UNCHANGED notPs

\* WritePSImage, case RLECompression: the packet after the x loop, where p
\* is one past the row: the next row's first pixel, or past the pixels of
\* the image after the last row.
RunlengthRowEnd ==
  /\ spc = "rle"
  /\ sx = Len(simage[sy + 1])
  /\ \E beyond \in (IF sy + 1 < Len(simage)
                      THEN {simage[sy + 2][1].opacity}
                      ELSE {OpaqueOpacity, TransparentOpacity}) :
       spackets' = Append(spackets,
                     IF sclass = "DirectClass"
                       THEN WriteRunlengthPacket(sy, spixel, slength, beyond)
                       ELSE WriteIndexPacket(sy, spixel.colour, slength))
  /\ sx' = 0
  /\ slength' = 255
  /\ IF sy + 1 < Len(simage)
       THEN /\ sy' = sy + 1
            /\ spixel' = simage[sy + 2][1]
            /\ spc' = spc
       ELSE /\ sy' = 0
            /\ spixel' = spixel
            /\ spc' = "dump"
  /\ UNCHANGED <<sclass, smatte, simage, sdump>>
  /\ UNCHANGED notPs

\* WritePSImage, case NoCompression: one pixel of the same image.
DumpPixel ==
  /\ spc = "dump"
  /\ LET p == simage[sy + 1][sx + 1]
     IN sdump' = Append(sdump,
                   IF sclass = "DirectClass"
                     THEN PopColour(smatte, p.opacity, p.colour)
                     ELSE p.colour)
  /\ IF sx + 1 < Len(simage[sy + 1])
       THEN sx' = sx + 1 /\ sy' = sy /\ spc' = spc
       ELSE /\ sx' = 0
            /\ IF sy + 1 < Len(simage)
                 THEN sy' = sy + 1 /\ spc' = spc
                 ELSE sy' = sy /\ spc' = "done"
  /\ UNCHANGED <<sclass, smatte, simage, spixel, slength, spackets>>
  /\ UNCHANGED notPs

NextPs ==
  \/ RunlengthPixel
  \/ RunlengthRowEnd
  \/ DumpPixel

SpecPs == InitPs /\ [][NextPs]_vars

\* The colours of the pixels the packets stand for.
RECURSIVE Expand(_)
Expand(packets) ==
  IF packets = <<>> THEN <<>>
  ELSE [i \in 1..(Head(packets).length + 1) |-> Head(packets).colour]
         \o Expand(Tail(packets))

\* The pixels of the image, row after row.
RECURSIVE Flatten(_)
Flatten(image) ==
  IF image = <<>> THEN <<>> ELSE Head(image) \o Flatten(Tail(image))

\* C21: in DirectClass output a pixel is written as FFFFFF exactly when
\* the image has a matte channel and the pixel's own opacity is
\* TransparentOpacity, in the uncompressed dump and in the run-length dump;
\* the run-length packets expand to the colours of the uncompressed dump.
C21_SentinelOwnOpacity ==
  (spc = "done" /\ sclass = "DirectClass") =>
    LET own == [i \in 1..Len(Flatten(simage)) |->
                  PopColour(smatte, Flatten(simage)[i].opacity,
                            Flatten(simage)[i].colour)]
    IN /\ sdump = own
       /\ Expand(spackets) = own
       /\ Expand(spackets) = sdump

\* C23: in run-length output of an image without transparent pixels, the
\* packets of each row have a length byte in 0..255, their lengths plus one
\* sum to image->columns (no packet spans two rows), and they expand to the
\* colours, or the indexes, of the row.
C23_PacketsCoverRow ==
  (spc # "rle" /\ \A i \in 1..Len(Flatten(simage)) :
                    Flatten(simage)[i].opacity # TransparentOpacity) =>
    /\ \A k \in 1..Len(spackets) : spackets[k].length \in 0..255
    /\ \A y \in 0..(Len(simage) - 1) :
         LET ofrow == SelectSeq(spackets, LAMBDA pk : pk.row = y)
         IN /\ Len(Expand(ofrow)) = Len(simage[y + 1])
            /\ Expand(ofrow) =
                 [x \in 1..Len(simage[y + 1]) |->
                    IF sclass = "DirectClass"
                      THEN ScaleQuantumToChar(simage[y + 1][x].colour)
                      ELSE simage[y + 1][x].colour]

\* ------------------------------------- ReadPNMImage, case '6': the type

\* Columns of the rows whose type is found.
TypeCols == 2

\* A pixel is black or white ("mono"), gray, or coloured.
PixelKinds == {"mono", "gray", "colour"}

IsMonochromePixel(kind) == kind = "mono"
IsGrayPixel(kind) == kind \in {"mono", "gray"}

InitType ==
  /\ ReadIdle
  /\ AsciiIdle
  /\ WriteIdle
  /\ PamIdle
  /\ CodecIdle
  /\ ExtentIdle
  /\ BilevelIdle
  /\ PfmIdle
  /\ TiffAlphaIdle
  /\ QuantumIdle
  /\ PsIdle
  /\ RegistryIdle
  /\ TileIdle
  /\ PpmIdle
  /\ RgbaIdle
  /\ HandlersIdle
  /\ KeyIdle
  /\ format = "6"
  /\ rows \in 1..MaxRows
  /\ \E n \in 1..TypeCols : mimage \in [0..(rows - 1) -> [0..(n - 1) -> PixelKinds]]
  /\ mtype = "BilevelType"
  /\ mnexty = 0
  /\ mpc = [w \in Workers |-> "idle"]
  /\ mrow = [w \in Workers |-> 0]
  /\ mx = [w \in Workers |-> 0]
  /\ mpend = [w \in Workers |-> "none"]
  /\ mresult = "UndefinedType"

\* The parallel for hands out the next y; the row is decoded and the
\* worker reaches if ((type == BilevelType) || (type == GrayscaleType)).
TypeDispatch(w) ==
  /\ mpc[w] = "idle"
  /\ IF mnexty < rows
       THEN /\ mnexty' = mnexty + 1
            /\ mrow' = [mrow EXCEPT ![w] = mnexty]
            /\ mx' = [mx EXCEPT ![w] = 0]
            /\ mpc' = [mpc EXCEPT ![w] =
                         IF mtype \in {"BilevelType", "GrayscaleType"}
                           THEN "monochrome" ELSE "idle"]
       ELSE /\ mpc' = [mpc EXCEPT ![w] = "exit"]
            /\ UNCHANGED <<mnexty, mrow, mx>>
  /\ UNCHANGED <<mimage, mtype, mpend, mresult>>
  /\ UNCHANGED notType

\* if ((type == BilevelType) && (IsMonochromePixel(q) == MagickFalse)):
\* the test, and the value that will be stored into type.
TypeMonochrome(w) ==
  /\ mpc[w] = "monochrome"
  /\ LET q == mimage[mrow[w]][mx[w]]
     IN IF mtype = "BilevelType" /\ ~IsMonochromePixel(q)
          THEN /\ mpend' = [mpend EXCEPT ![w] =
                    IF ~IsGrayPixel(q) THEN "UndefinedType"
                    ELSE "GrayscaleType"]
               /\ mpc' = [mpc EXCEPT ![w] = "store monochrome"]
          ELSE /\ mpend' = mpend
               /\ mpc' = [mpc EXCEPT ![w] = "gray"]
  /\ UNCHANGED <<mimage, mtype, mnexty, mrow, mx, mresult>>
  /\ UNCHANGED notType

\* if ((type == GrayscaleType) && (IsGrayPixel(q) == MagickFalse)): the
\* test.
TypeGray(w) ==
  /\ mpc[w] = "gray"
  /\ LET q == mimage[mrow[w]][mx[w]]
     IN IF mtype = "GrayscaleType" /\ ~IsGrayPixel(q)
          THEN /\ mpend' = [mpend EXCEPT ![w] = "UndefinedType"]
               /\ mpc' = [mpc EXCEPT ![w] = "store gray"]
          ELSE /\ mpend' = mpend
               /\ mpc' = [mpc EXCEPT ![w] = "advance"]
  /\ UNCHANGED <<mimage, mtype, mnexty, mrow, mx, mresult>>
  /\ UNCHANGED notType

\* type=...: the store into the shared type, which no critical section
\* guards.
TypeStore(w) ==
  /\ mpc[w] \in {"store monochrome", "store gray"}
  /\ mtype' = mpend[w]
  /\ mpend' = [mpend EXCEPT ![w] = "none"]
  /\ mpc' = [mpc EXCEPT ![w] =
               IF mpc[w] = "store monochrome" THEN "gray" ELSE "advance"]
  /\ UNCHANGED <<mimage, mnexty, mrow, mx, mresult>>
  /\ UNCHANGED notType

\* if ((type != BilevelType) && (type != GrayscaleType)) break; q++; and
\* the end of the x loop.
TypeAdvance(w) ==
  /\ mpc[w] = "advance"
  /\ IF mtype \notin {"BilevelType", "GrayscaleType"}
          \/ mx[w] + 1 >= Cardinality(DOMAIN mimage[mrow[w]])
       THEN /\ mpc' = [mpc EXCEPT ![w] = "idle"]
            /\ mx' = mx
       ELSE /\ mpc' = [mpc EXCEPT ![w] = "monochrome"]
            /\ mx' = [mx EXCEPT ![w] = mx[w] + 1]
  /\ UNCHANGED <<mimage, mtype, mnexty, mrow, mpend, mresult>>
  /\ UNCHANGED notType

\* After the loop: if (type != UndefinedType) image->type=type;
TypeFinish ==
  /\ \A w \in Workers : mpc[w] = "exit"
  /\ mresult = "UndefinedType"
  /\ mtype # "UndefinedType"
  /\ mresult' = mtype
  /\ mpc' = [w \in Workers |-> "done"]
  /\ UNCHANGED <<mimage, mtype, mnexty, mrow, mx, mpend>>
  /\ UNCHANGED notType

NextType ==
  \/ TypeFinish
  \/ \E w \in Workers :
       \/ TypeDispatch(w)
       \/ TypeMonochrome(w)
       \/ TypeGray(w)
       \/ TypeStore(w)
       \/ TypeAdvance(w)

SpecType == InitType /\ [][NextType]_vars

\* Every pixel of the image satisfies Test.
AllPixels(Test(_)) ==
  \A r \in DOMAIN mimage : \A c \in DOMAIN mimage[r] : Test(mimage[r][c])

\* C24: after a raw PPM is decoded, image->type is BilevelType only if
\* every pixel is monochrome and GrayscaleType only if every pixel is gray,
\* and it is what one worker alone finds, whatever the interleaving of the
\* row workers.
C24_TypeOfImage ==
  (\A w \in Workers : mpc[w] \in {"exit", "done"}) =>
    LET found == IF \A w \in Workers : mpc[w] = "done" THEN mresult
                  ELSE mtype
    IN /\ found = "BilevelType" => AllPixels(IsMonochromePixel)
       /\ found = "GrayscaleType" => AllPixels(IsGrayPixel)
       /\ found = (IF AllPixels(IsMonochromePixel) THEN "BilevelType"
                    ELSE IF AllPixels(IsGrayPixel) THEN "GrayscaleType"
                    ELSE "UndefinedType")

\* ------------------------------------- Register and Unregister

\* Calls of Register and Unregister functions in one run.
MaxCalls == 3

Modules == {"PNM", "TIFF", "PS"}

\* The tags of the SetMagickInfo and RegisterMagickInfo calls, in order.
RegisterTags(module) ==
  CASE module = "PNM" -> <<"PAM", "PBM", "PFM", "PGM", "PNM", "PPM">>
    [] module = "TIFF" -> <<"PTIF", "TIF", "TIFF", "TIFF64">>
    [] module = "PS" -> <<"EPI", "EPS", "EPSF", "EPSI", "PS">>

\* The tags of the UnregisterMagickInfo calls, in order.
UnregisterTags(module) ==
  CASE module = "PNM" -> <<"PAM", "PBM", "PGM", "PNM", "PPM">>
    [] module = "TIFF" -> <<"PTIF", "TIF", "TIFF", "TIFF64">>
    [] module = "PS" -> <<"EPI", "EPS", "EPSF", "EPSI", "PS">>

CallTags(op, module) ==
  IF op = "Register" THEN RegisterTags(module)
  ELSE IF op = "Unregister" THEN UnregisterTags(module)
  ELSE <<>>

InitRegistry ==
  /\ ReadIdle
  /\ AsciiIdle
  /\ WriteIdle
  /\ PamIdle
  /\ CodecIdle
  /\ ExtentIdle
  /\ BilevelIdle
  /\ PfmIdle
  /\ TiffAlphaIdle
  /\ QuantumIdle
  /\ PsIdle
  /\ TypeIdle
  /\ TileIdle
  /\ PpmIdle
  /\ RgbaIdle
  /\ HandlersIdle
  /\ KeyIdle
  /\ format = "none"
  /\ rows = 1
  /\ rlist = {}
  /\ rop = "start"
  /\ rmod = "none"
  /\ rnext = 1
  /\ rprev = <<"none", "none">>
  /\ rcalls = 0

\* A Register or an Unregister function is called, the one before having
\* returned.
BeginCall ==
  /\ rnext > Len(CallTags(rop, rmod))
  /\ rcalls < MaxCalls
  /\ rop' \in {"Register", "Unregister"}
  /\ rmod' \in Modules
  /\ rnext' = 1
  /\ rprev' = <<rop, rmod>>
  /\ rcalls' = rcalls + 1
  /\ UNCHANGED rlist
  /\ UNCHANGED notRegistry

\* entry=SetMagickInfo(tag); ... (void) RegisterMagickInfo(entry);
RegisterMagickInfo ==
  /\ rop = "Register"
  /\ rnext <= Len(RegisterTags(rmod))
  /\ rlist' = rlist \cup {RegisterTags(rmod)[rnext]}
  /\ rnext' = rnext + 1
  /\ UNCHANGED <<rop, rmod, rprev, rcalls>>
  /\ UNCHANGED notRegistry

\* (void) UnregisterMagickInfo(tag);
UnregisterMagickInfo ==
  /\ rop = "Unregister"
  /\ rnext <= Len(UnregisterTags(rmod))
  /\ rlist' = rlist \ {UnregisterTags(rmod)[rnext]}
  /\ rnext' = rnext + 1
  /\ UNCHANGED <<rop, rmod, rprev, rcalls>>
  /\ UNCHANGED notRegistry

NextRegistry ==
  \/ BeginCall
  \/ RegisterMagickInfo
  \/ UnregisterMagickInfo

SpecRegistry == InitRegistry /\ [][NextRegistry]_vars

\* C22: when a module's Unregister function returns, called after the
\* module's Register function, none of the tags that Register function
\* registered is in the list of supported formats.
C22_NoTagRemains ==
  (/\ rop = "Unregister"
   /\ rnext > Len(UnregisterTags(rmod))
   /\ rprev = <<"Register", rmod>>) =>
    Range(RegisterTags(rmod)) \cap rlist = {}

\* ------------------------------------- TIFFWritePixels, tiled output

\* The largest image (columns and rows) and the largest tile (width and
\* height) of the tiled output.
TileImage == 4
TileSize == 3

\* The test that fails for every row but the last one of a band.
LastOfBandOnly(r, height, nrows) == r % height = height - 1

\* The negation of the test before return(0): row is the last row of a
\* band of tile_geometry.height rows, or the last row of the image.
LastOfBand(r, height, nrows) ==
  ~(r % height # height - 1 /\ r # nrows - 1)

\* number_tiles=(image->columns+tiff_info->tile_geometry.width)/
\*   tiff_info->tile_geometry.width;
NumberTiles(columns, width) == (columns + width) \div width

\* TIFFWriteTile: -1 for a tile that starts outside the image, else the
\* bytes written.
TIFFWriteTile(x, y, columns) == IF x >= columns THEN -1 ELSE 1

InitTile ==
  /\ ReadIdle
  /\ AsciiIdle
  /\ WriteIdle
  /\ PamIdle
  /\ CodecIdle
  /\ ExtentIdle
  /\ BilevelIdle
  /\ PfmIdle
  /\ TiffAlphaIdle
  /\ QuantumIdle
  /\ PsIdle
  /\ TypeIdle
  /\ RegistryIdle
  /\ PpmIdle
  /\ RgbaIdle
  /\ HandlersIdle
  /\ KeyIdle
  /\ format = "none"
  /\ rows = 1
  /\ zcols \in 1..TileImage
  /\ zrows \in 1..TileImage
  /\ zwidth \in 1..TileSize
  /\ zheight \in 1..TileSize
  /\ zrow = 0
  /\ zslots = [j \in 0..(zheight - 1) |-> -1]
  /\ zi = -1
  /\ ztiles = <<>>
  /\ zreturns = <<>>

\* TIFFWritePixels, called for the next row: the scanline is copied into
\* the band; return(0) unless the band is to be written.
FillScanlines ==
  /\ zi = -1
  /\ zrow < zrows
  /\ zslots' = [zslots EXCEPT ![zrow % zheight] = zrow]
  /\ IF LastOfBand(zrow, zheight, zrows)
       THEN /\ zi' = 0
            /\ UNCHANGED <<zrow, zreturns>>
       ELSE /\ zi' = zi
            /\ zrow' = zrow + 1
            /\ zreturns' = Append(zreturns, 0)
  /\ UNCHANGED <<zcols, zrows, zwidth, zheight, ztiles>>
  /\ UNCHANGED notTile

\* TIFFWritePixels: one pass of for (i=0; i < number_tiles; i++), and the
\* return after the last one or after a TIFFWriteTile that failed.
WriteTile ==
  /\ zi >= 0
  /\ LET number_tiles == NumberTiles(zcols, zwidth)
         tile_width == IF zi = number_tiles - 1 THEN zcols - zi * zwidth
                       ELSE zwidth
         x == zi * zwidth
         y == (zrow \div zheight) * zheight
         tstatus == TIFFWriteTile(x, y, zcols)
     IN /\ ztiles' = Append(ztiles,
             [call |-> zrow, x |-> x, y |-> y, width |-> tile_width,
              lines |-> {zslots[j] : j \in 0..(zrow % zheight)}])
        /\ IF tstatus < 0 \/ zi + 1 >= number_tiles
             THEN /\ zi' = -1
                  /\ zrow' = zrow + 1
                  /\ zreturns' = Append(zreturns, tstatus)
             ELSE /\ zi' = zi + 1
                  /\ UNCHANGED <<zrow, zreturns>>
  /\ UNCHANGED <<zcols, zrows, zwidth, zheight, zslots>>
  /\ UNCHANGED notTile

NextTile ==
  \/ FillScanlines
  \/ WriteTile

SpecTile == InitTile /\ [][NextTile]_vars

\* The tiles written by the call for row r.
TilesOf(r) == SelectSeq(ztiles, LAMBDA t : t.call = r)

\* C25: each flush writes ceil(columns / tile width) tiles, and every tile
\* written starts left of image->columns and covers at least one column,
\* also when columns is a multiple of the tile width.
C25_TilesOfFlush ==
  /\ \A k \in 1..Len(ztiles) : ztiles[k].x < zcols /\ ztiles[k].width >= 1
  /\ \A r \in 0..(zrow - 1) :
       TilesOf(r) # <<>> =>
         Len(TilesOf(r)) = (zcols + zwidth - 1) \div zwidth

\* C26: called for rows 0..rows-1 in order, TIFFWritePixels copies the
\* scanline into band slot row % tile height, writes tiles exactly on the
\* calls where row is the last row of a band or of the image, returns 0
\* and writes nothing on the other calls, and every image row is in
\* exactly one flush.
C26_BandFlush ==
  /\ zi >= 0 => zslots[zrow % zheight] = zrow
  /\ \A r \in 0..(zrow - 1) :
       IF r % zheight = zheight - 1 \/ r = zrows - 1
         THEN TilesOf(r) # <<>>
         ELSE TilesOf(r) = <<>> /\ zreturns[r + 1] = 0
  /\ \A k \in 1..Len(ztiles) :
       /\ ztiles[k].call % zheight = zheight - 1 \/ ztiles[k].call = zrows - 1
       /\ ztiles[k].lines = ztiles[k].y..ztiles[k].call
       /\ ztiles[k].y = ztiles[k].call - (ztiles[k].call % zheight)
  /\ zrow = zrows =>
       \A line \in 0..(zrows - 1) :
         Cardinality({r \in 0..(zrows - 1) :
                        \E k \in 1..Len(ztiles) :
                          ztiles[k].call = r /\ line \in ztiles[k].lines}) = 1

C26_Witness ==
  /\ zrow = zrows
  /\ zheight = 2
  /\ zrows = 3
  /\ zcols = 4
  /\ zwidth = 3
  /\ Len(ztiles) = 4
  /\ zreturns[1] = 0
  /\ ztiles[4].lines = {2}

\* ------------------------------------- WritePNMImage, case '6': one row

\* The widest row written.
PpmCols == 3

\* The bytes of one pixel in the loops of case '6' for a depth other than
\* 8 and 16: red, green, blue and, when image->matte is set, the alpha.
PpmPixel(depth, matte, p) ==
  LET range == GetQuantumRange(depth)
  IN PopPixel(depth, ScaleQuantumToAny(p.red, range))
       \o PopPixel(depth, ScaleQuantumToAny(p.green, range))
       \o PopPixel(depth, ScaleQuantumToAny(p.blue, range))
       \o (IF matte # MagickFalse THEN ColourAlpha(depth, p.opacity)
           ELSE <<>>)

\* ExportQuantumPixels(...,RGBQuantum,...) at depth 8 or 16: the bytes of
\* one pixel.
ExportRGB(depth, p) ==
  IF depth = 8
    THEN <<ScaleQuantumToChar(p.red), ScaleQuantumToChar(p.green),
           ScaleQuantumToChar(p.blue)>>
    ELSE PopShortPixel(ScaleQuantumToShort(p.red))
           \o PopShortPixel(ScaleQuantumToShort(p.green))
           \o PopShortPixel(ScaleQuantumToShort(p.blue))

InitPpm ==
  /\ ReadIdle
  /\ AsciiIdle
  /\ WriteIdle
  /\ PamIdle
  /\ CodecIdle
  /\ ExtentIdle
  /\ BilevelIdle
  /\ PfmIdle
  /\ TiffAlphaIdle
  /\ QuantumIdle
  /\ PsIdle
  /\ TypeIdle
  /\ RegistryIdle
  /\ TileIdle
  /\ RgbaIdle
  /\ HandlersIdle
  /\ KeyIdle
  /\ format = "6"
  /\ rows = 1
  /\ ndepth \in 1..16
  /\ nmatte \in {MagickFalse, MagickTrue}
  /\ ncols \in 1..PpmCols
  /\ \E v \in {0, QuantumRange} :
       npixel = [red |-> v, green |-> QuantumRange - v, blue |-> v,
                 opacity |-> v]
  /\ nx = 0
  /\ nbytes = <<>>
  /\ nextent = -1
  /\ npc = "header"

\* if (image->depth > 8) image->depth=16; and the maxval line.
PpmHeader ==
  /\ npc = "header"
  /\ ndepth' = (IF ndepth > 8 THEN 16 ELSE ndepth)
  /\ npc' = "row"
  /\ UNCHANGED <<nmatte, ncols, npixel, nx, nbytes, nextent>>
  /\ UNCHANGED notPpm

\* Depth 8 or 16: extent=ExportQuantumPixels(...) and WriteBlob.
PpmExportRow ==
  /\ npc = "row"
  /\ ndepth \in {8, 16}
  /\ LET RECURSIVE Row(_)
         Row(n) == IF n = 0 THEN <<>>
                   ELSE Row(n - 1) \o ExportRGB(ndepth, npixel)
     IN /\ nbytes' = Row(ncols)
        /\ nextent' = Len(Row(ncols))
  /\ nx' = ncols
  /\ npc' = "written"
  /\ UNCHANGED <<ndepth, nmatte, ncols, npixel>>
  /\ UNCHANGED notPpm

\* Any other depth: one pass of the x loop; after the last,
\* extent=(size_t) (q-pixels) and WriteBlob.
PpmPopPixel ==
  /\ npc = "row"
  /\ ndepth \notin {8, 16}
  /\ nx < ncols
  /\ nbytes' = nbytes \o PpmPixel(ndepth, nmatte, npixel)
  /\ nx' = nx + 1
  /\ IF nx + 1 = ncols
       THEN /\ nextent' = Len(nbytes')
            /\ npc' = "written"
       ELSE UNCHANGED <<nextent, npc>>
  /\ UNCHANGED <<ndepth, nmatte, ncols, npixel>>
  /\ UNCHANGED notPpm

NextPpm ==
  \/ PpmHeader
  \/ PpmExportRow
  \/ PpmPopPixel

SpecPpm == InitPpm /\ [][NextPpm]_vars

\* C27: a row of raw PPM is written in 3 * (depth <= 8 ? 1 : 2) * columns
\* bytes, the extent the P6 decoder reads for the maxval written, for every
\* depth in 1..16 and with image->matte set or not.
C27_PpmRowExtent ==
  npc = "written" =>
    /\ nextent = 3 * (IF ndepth <= 8 THEN 1 ELSE 2) * ncols
    /\ nextent = 3 * (IF DepthFrom(1, GetQuantumRange(ndepth)) <= 8
                        THEN 1 ELSE 2) * ncols

\* ------------------------ ReadTIFFImage: the libtiff RGBA raster decoders

\* The widest and the tallest picture decoded.
RgbaCols == 3
RgbaRows == 2

\* A 32-bit raster element is the tuple of its four bytes, the least
\* significant first: libtiff packs a pixel as A<<24 | B<<16 | G<<8 | R.
RgbaSamples == {<<10, 20, 30, 0>>, <<40, 50, 60, 255>>}
RgbaZero == <<0, 0, 0, 0>>
RgbaMethods == {"ReadStripMethod", "ReadTileMethod", "ReadGenericMethod"}

TIFFGetR(abgr) == abgr[1]
TIFFGetG(abgr) == abgr[2]
TIFFGetB(abgr) == abgr[3]
TIFFGetA(abgr) == abgr[4]

\* The picture stored in the file: pixel (yy, xx).
PictureAt(picture, yy, xx) == picture[yy * RgbaCols + xx + 1]

\* TIFFReadRGBAStrip: the strip that starts at image row y0, as
\* min(rows_per_strip, rows - y0) raster rows of image->columns elements,
\* the last image row of the strip first.
TIFFReadRGBAStrip(picture, rps, y0) ==
  LET n == Min(rps, RgbaRows - y0)
  IN [k \in 1..(n * RgbaCols) |->
        PictureAt(picture, y0 + (n - 1 - ((k - 1) \div RgbaCols)),
                  (k - 1) % RgbaCols)]

\* TIFFReadRGBATile: the tile at (x0, y0), as tile-length raster rows of
\* tile-width elements, the last row of the tile first; the elements
\* outside the picture are zero.
TIFFReadRGBATile(picture, tw, th, x0, y0) ==
  [k \in 1..(tw * th) |->
     LET yy == y0 + (th - 1 - ((k - 1) \div tw))
         xx == x0 + ((k - 1) % tw)
     IN IF yy < RgbaRows /\ xx < RgbaCols THEN PictureAt(picture, yy, xx)
        ELSE RgbaZero]

\* TIFFReadRGBAImage with orientation 0: the whole picture, the last image
\* row first.
TIFFReadRGBAImage(picture) ==
  [k \in 1..(RgbaRows * RgbaCols) |->
     PictureAt(picture, RgbaRows - 1 - ((k - 1) \div RgbaCols),
               (k - 1) % RgbaCols)]

\* The byte at byte address at of the raster, for the byte order of the
\* host.
RasterByte(raster, at, msb) ==
  LET w == raster[(at \div 4) + 1]
  IN IF msb THEN w[4 - (at % 4)] ELSE w[(at % 4) + 1]

\* *p through a pointer to unsigned char, promoted to the argument of the
\* TIFFGet macros.
CharElement(raster, at, msb) == <<RasterByte(raster, at, msb), 0, 0, 0>>

\* *p through a pointer to uint32.
WordElement(raster, index) == raster[index + 1]

\* One pixel as a decoder stores it: where it was read from (the byte
\* address at, unit bytes wide) and the channels set.
RgbaPixel(method, yy, xx, unit, at, v) ==
  [method |-> method, y |-> yy, x |-> xx, unit |-> unit, at |-> at,
   red |-> ScaleCharToQuantum(TIFFGetR(v)),
   green |-> ScaleCharToQuantum(TIFFGetG(v)),
   blue |-> ScaleCharToQuantum(TIFFGetB(v))]

\* q->opacity of the strip and the generic decoder.
RgbaOpacity(method, v) ==
  [method |-> method, a |-> TIFFGetA(v),
   opacity |-> ScaleCharToQuantum(TIFFGetA(v))]

\* q->opacity of the tile decoder.
RgbaTileOpacity(method, v) ==
  [method |-> method, a |-> TIFFGetA(v),
   opacity |-> QuantumRange - ScaleCharToQuantum(TIFFGetA(v))]

InitRgba ==
  /\ ReadIdle
  /\ AsciiIdle
  /\ WriteIdle
  /\ PamIdle
  /\ CodecIdle
  /\ ExtentIdle
  /\ BilevelIdle
  /\ PfmIdle
  /\ TiffAlphaIdle
  /\ QuantumIdle
  /\ PsIdle
  /\ TypeIdle
  /\ RegistryIdle
  /\ TileIdle
  /\ PpmIdle
  /\ HandlersIdle
  /\ KeyIdle
  /\ format = "none"
  /\ rows = RgbaRows
  /\ gmethod \in RgbaMethods
  /\ gmatte \in {MagickFalse, MagickTrue}
  /\ gmsb \in BOOLEAN
  /\ gpicture \in [1..(RgbaRows * RgbaCols) -> RgbaSamples]
  /\ grps \in 1..RgbaRows
  /\ gtw \in 2..RgbaCols
  /\ gth \in 1..RgbaRows
  /\ gy = 0
  /\ gi = 0
  /\ graster = <<>>
  /\ gstored = {}
  /\ galpha = {}
  /\ gdone = {}
  /\ gpc = "rows"

\* ReadStripMethod: one pass of the y loop.
DecodeStripRow ==
  /\ gpc = "rows"
  /\ gmethod = "ReadStripMethod"
  /\ gy < RgbaRows
  /\ LET raster == IF gi = 0 THEN TIFFReadRGBAStrip(gpicture, grps, gy)
                   ELSE graster
         i1 == (IF gi = 0 THEN Min(grps, RgbaRows - gy) ELSE gi) - 1
         p(xx) == RgbaCols * i1 + xx
     IN /\ graster' = raster
        /\ gi' = i1
        /\ gstored' = gstored \cup
             {RgbaPixel(gmethod, gy, xx, 1, p(xx),
                        CharElement(raster, p(xx), gmsb)) :
                xx \in 0..(RgbaCols - 1)}
        /\ galpha' = (IF gmatte # MagickFalse
                        THEN galpha \cup
                          {RgbaOpacity(gmethod,
                                       CharElement(raster, p(xx), gmsb)) :
                             xx \in 0..(RgbaCols - 1)}
                        ELSE galpha)
  /\ gy' = gy + 1
  /\ UNCHANGED <<gmethod, gmatte, gmsb, gpicture, grps, gtw, gth, gdone, gpc>>
  /\ UNCHANGED notRgba

\* ReadTileMethod: one pass of the y loop, the tiles of one band.
DecodeTileBand ==
  /\ gpc = "rows"
  /\ gmethod = "ReadTileMethod"
  /\ gy < RgbaRows
  /\ LET rows_remaining == IF gy + gth < RgbaRows THEN gth ELSE RgbaRows - gy
         columns_remaining(x0) ==
           IF x0 + gtw < RgbaCols THEN gtw ELSE RgbaCols - x0
         origins == {x0 \in 0..(RgbaCols - 1) : x0 % gtw = 0}
         \* the element p names at the k-th row and c-th column of the loops
         p(k, c) == (gth - rows_remaining) * gtw + k * gtw + c
         \* the image row q names there
         qrow(k) == gy + rows_remaining - 1 - k
         cells == {<<x0, k, c>> \in
                     origins \X (0..(gth - 1)) \X (0..(gtw - 1)) :
                       k < rows_remaining /\ c < columns_remaining(x0)}
         raster(x0) == TIFFReadRGBATile(gpicture, gtw, gth, x0, gy)
         last == CHOOSE x0 \in origins : \A o \in origins : o <= x0
     IN /\ graster' = raster(last)
        /\ gstored' = gstored \cup
             {RgbaPixel(gmethod, qrow(t[2]), t[1] + t[3], 4,
                        4 * p(t[2], t[3]),
                        WordElement(raster(t[1]), p(t[2], t[3]))) :
                t \in cells}
        /\ galpha' = (IF gmatte # MagickFalse
                        THEN galpha \cup
                          {RgbaTileOpacity(gmethod,
                             WordElement(raster(t[1]), p(t[2], t[3]))) :
                             t \in cells}
                        ELSE galpha)
  /\ gy' = gy + gth
  /\ UNCHANGED <<gmethod, gmatte, gmsb, gpicture, grps, gtw, gth, gi, gdone,
                 gpc>>
  /\ UNCHANGED notRgba

\* ReadGenericMethod: TIFFReadRGBAImage before the first row, then one pass
\* of the y loop; p runs backwards from the last element.
DecodeGenericRow ==
  /\ gpc = "rows"
  /\ gmethod = "ReadGenericMethod"
  /\ gy < RgbaRows
  /\ LET raster == IF gy = 0 THEN TIFFReadRGBAImage(gpicture) ELSE graster
         number_pixels == RgbaCols * RgbaRows
         \* p when q names column xx of row gy
         p(xx) == (number_pixels - 1) - gy * RgbaCols
                    - (RgbaCols - 1 - xx)
     IN /\ graster' = raster
        /\ gstored' = gstored \cup
             {RgbaPixel(gmethod, gy, xx, 4, 4 * p(xx),
                        WordElement(raster, p(xx))) :
                xx \in 0..(RgbaCols - 1)}
        /\ galpha' = (IF gmatte # MagickFalse
                        THEN galpha \cup
                          {RgbaOpacity(gmethod, WordElement(raster, p(xx))) :
                             xx \in 0..(RgbaCols - 1)}
                        ELSE galpha)
  /\ gy' = gy + 1
  /\ UNCHANGED <<gmethod, gmatte, gmsb, gpicture, grps, gtw, gth, gi, gdone,
                 gpc>>
  /\ UNCHANGED notRgba

\* The y loop ends.
RgbaDone ==
  /\ gpc = "rows"
  /\ gy >= RgbaRows
  /\ gpc' = "done"
  /\ gdone' = gdone \cup {gmethod}
  /\ UNCHANGED <<gmethod, gmatte, gmsb, gpicture, grps, gtw, gth, gy, gi,
                 graster, gstored, galpha>>
  /\ UNCHANGED notRgba

\* ReadTIFFImage is called on a file that stores the same picture another
\* way.
RgbaNextFile ==
  /\ gpc = "done"
  /\ \E m \in RgbaMethods \ gdone :
       gmethod' = m
  /\ gy' = 0
  /\ gi' = 0
  /\ graster' = <<>>
  /\ gpc' = "rows"
  /\ UNCHANGED <<gmatte, gmsb, gpicture, grps, gtw, gth, gstored, galpha,
                 gdone>>
  /\ UNCHANGED notRgba

NextRgba ==
  \/ DecodeStripRow
  \/ DecodeTileBand
  \/ DecodeGenericRow
  \/ RgbaDone
  \/ RgbaNextFile

SpecRgba == InitRgba /\ [][NextRgba]_vars

\* The raster element libtiff stores pixel (yy, xx) in, for the raster a
\* decoder reads.
RasterIndex(method, yy, xx) ==
  IF method = "ReadStripMethod"
    THEN LET y0 == (yy \div grps) * grps
             n == Min(grps, RgbaRows - y0)
         IN (n - 1 - (yy - y0)) * RgbaCols + xx
  ELSE IF method = "ReadTileMethod"
    THEN LET y0 == (yy \div gth) * gth
         IN (gth - 1 - (yy - y0)) * gtw + (xx % gtw)
  ELSE (RgbaRows - 1 - yy) * RgbaCols + xx

\* C28: with image->matte set the strip, the tile and the generic decoder
\* store the same opacity for the same raster alpha sample, and each of
\* them reads a pixel from the 32-bit raster element at row * columns + x.
C28_RgbaSameOpacityAndElement ==
  /\ \A d \in galpha : \A e \in galpha :
       d.a = e.a => d.opacity = e.opacity
  /\ \A d \in gstored :
       /\ d.unit = 4
       /\ d.at = 4 * RasterIndex(d.method, d.y, d.x)

\* ----------- ReadTIFFImage, WriteTIFFImage: the libtiff message handlers

\* The calls made one after the other, and the frames of a file.
HandlerCalls == 2
HandlerFrames == 2

HandlerOps == {"ReadTIFFImage", "WriteTIFFImage"}

\* What the process-wide handlers are before the first call: libtiff's own
\* or the application's.
EntryHandlers == {"libtiff", "application"}

\* TIFFSetErrorHandler and TIFFSetWarningHandler store the handler and
\* return the one stored before.
TIFFSetHandler(current, handler) ==
  [installed |-> handler, previous |-> current]

InitHandlers ==
  /\ ReadIdle
  /\ AsciiIdle
  /\ WriteIdle
  /\ PamIdle
  /\ CodecIdle
  /\ ExtentIdle
  /\ BilevelIdle
  /\ PfmIdle
  /\ TiffAlphaIdle
  /\ QuantumIdle
  /\ PsIdle
  /\ TypeIdle
  /\ RegistryIdle
  /\ TileIdle
  /\ PpmIdle
  /\ RgbaIdle
  /\ KeyIdle
  /\ format = "none"
  /\ rows = 1
  /\ hop \in HandlerOps
  /\ herror \in EntryHandlers
  /\ hwarning \in EntryHandlers
  /\ herror_handler = "unset"
  /\ hwarning_handler = "unset"
  /\ hentry = <<herror, hwarning>>
  /\ hscenes \in {MagickFalse, MagickTrue}
  /\ hframes \in 1..HandlerFrames
  /\ hcalls = 1
  /\ hexit = "none"
  /\ hpc = "entry"

\* status=OpenBlob(...); a failure returns before the handlers are touched.
HandlersOpenBlob ==
  /\ hpc = "entry"
  /\ \/ /\ hpc' = "returned"
        /\ hexit' = "blob not opened"
     \/ /\ hpc' = "install"
        /\ hexit' = hexit
  /\ UNCHANGED <<hop, herror, hwarning, herror_handler, hwarning_handler,
                 hentry, hscenes, hframes, hcalls>>
  /\ UNCHANGED notHandlers

\* error_handler=TIFFSetErrorHandler(TIFFErrors);
\* warning_handler=TIFFSetWarningHandler(TIFFWarnings);
InstallHandlers ==
  /\ hpc = "install"
  /\ herror' = TIFFSetHandler(herror, "TIFFErrors").installed
  /\ herror_handler' = TIFFSetHandler(herror, "TIFFErrors").previous
  /\ hwarning' = TIFFSetHandler(hwarning, "TIFFWarnings").installed
  /\ hwarning_handler' = TIFFSetHandler(hwarning, "TIFFWarnings").previous
  /\ hpc' = "open"
  /\ UNCHANGED <<hop, hentry, hscenes, hframes, hcalls, hexit>>
  /\ UNCHANGED notHandlers

\* tiff=TIFFClientOpen(...); NULL sets the handlers back and returns.
HandlersClientOpen ==
  /\ hpc = "open"
  /\ \/ /\ hwarning' = TIFFSetHandler(hwarning, hwarning_handler).installed
        /\ herror' = TIFFSetHandler(herror, herror_handler).installed
        /\ hpc' = "returned"
        /\ hexit' = "failed open"
     \/ /\ hpc' = (IF hop = "ReadTIFFImage" /\ hscenes # MagickFalse
                     THEN "scenes" ELSE "frame")
        /\ UNCHANGED <<herror, hwarning, hexit>>
  /\ UNCHANGED <<hop, herror_handler, hwarning_handler, hentry, hscenes,
                 hframes, hcalls>>
  /\ UNCHANGED notHandlers

\* ReadTIFFImage, image_info->number_scenes != 0: the blank images before
\* the scene asked for; a next image that cannot be allocated returns NULL.
HandlersBlankImages ==
  /\ hpc = "scenes"
  /\ \/ /\ hpc' = "returned"
        /\ hexit' = "next frame not allocated"
     \/ /\ hpc' = "frame"
        /\ hexit' = hexit
  /\ UNCHANGED <<hop, herror, hwarning, herror_handler, hwarning_handler,
                 hentry, hscenes, hframes, hcalls>>
  /\ UNCHANGED notHandlers

\* One pass of the frame loop up to the end of the frame. ReadTIFFImage:
\* TIFFClose and ThrowReaderException for a compression that is not
\* configured and for the allocations; WriteTIFFImage: ThrowWriterException.
HandlersFrame ==
  /\ hpc = "frame"
  /\ \/ /\ hop = "ReadTIFFImage"
        /\ hpc' = "returned"
        /\ hexit' = "compression not supported"
     \/ /\ hpc' = "returned"
        /\ hexit' = "allocation failed"
     \/ /\ hpc' = "next"
        /\ hexit' = hexit
  /\ UNCHANGED <<hop, herror, hwarning, herror_handler, hwarning_handler,
                 hentry, hscenes, hframes, hcalls>>
  /\ UNCHANGED notHandlers

\* The end of the frame loop: the next frame, or the handlers set back,
\* TIFFClose and the return.
HandlersNextFrame ==
  /\ hpc = "next"
  /\ \/ /\ hop = "ReadTIFFImage"
        /\ hframes > 1
        /\ hpc' = "returned"
        /\ hexit' = "next frame not allocated"
        /\ UNCHANGED <<herror, hwarning, hframes>>
     \/ /\ hframes > 1
        /\ hpc' = "frame"
        /\ hframes' = hframes - 1
        /\ UNCHANGED <<herror, hwarning, hexit>>
     \/ /\ hwarning' = TIFFSetHandler(hwarning, hwarning_handler).installed
        /\ herror' = TIFFSetHandler(herror, herror_handler).installed
        /\ hpc' = "returned"
        /\ hexit' = (IF hframes > 1 THEN "cancelled" ELSE "normal")
        /\ hframes' = hframes
  /\ UNCHANGED <<hop, herror_handler, hwarning_handler, hentry, hscenes,
                 hcalls>>
  /\ UNCHANGED notHandlers

\* The next call of ReadTIFFImage or WriteTIFFImage.
HandlersNextCall ==
  /\ hpc = "returned"
  /\ hcalls < HandlerCalls
  /\ hcalls' = hcalls + 1
  /\ hop' \in HandlerOps
  /\ hscenes' \in {MagickFalse, MagickTrue}
  /\ hframes' \in 1..HandlerFrames
  /\ hentry' = <<herror, hwarning>>
  /\ herror_handler' = "unset"
  /\ hwarning_handler' = "unset"
  /\ hexit' = "none"
  /\ hpc' = "entry"
  /\ UNCHANGED <<herror, hwarning>>
  /\ UNCHANGED notHandlers

NextHandlers ==
  \/ HandlersOpenBlob
  \/ InstallHandlers
  \/ HandlersClientOpen
  \/ HandlersBlankImages
  \/ HandlersFrame
  \/ HandlersNextFrame
  \/ HandlersNextCall

SpecHandlers == InitHandlers /\ [][NextHandlers]_vars

\* C29: on every return of ReadTIFFImage and WriteTIFFImage taken after the
\* handlers were installed the process-wide error and warning handlers are
\* the ones the call found on entry.
C29_HandlersSetBack ==
  (hpc = "returned" /\ herror_handler # "unset") =>
    /\ herror = hentry[1]
    /\ hwarning = hentry[2]

\* ------ RegisterTIFFImage, UnregisterTIFFImage: the thread key tiff_exception

\* The threads that call, and the calls they make between them.
KeyThreads == 1..2
KeyCalls == 4

\* tiff_semaphore = (SemaphoreInfo *) NULL
NoSemaphore == 0

KeyOps == {"RegisterTIFFImage", "UnregisterTIFFImage"}

\* Between AcquireSemaphoreInfo and RelinquishSemaphoreInfo.
KeySection == {"test", "create", "set", "delete", "clear", "relinquish"}

\* Whether thread t holds the semaphore tiff_semaphore points to.
HoldsSemaphore(t) ==
  /\ ksemaphore # NoSemaphore
  /\ kheld[t] = ksemaphore
  /\ kholder[ksemaphore] = t

KeyRunning == \A t \in KeyThreads : kpc[t] # "aborted"

InitKey ==
  /\ ReadIdle
  /\ AsciiIdle
  /\ WriteIdle
  /\ PamIdle
  /\ CodecIdle
  /\ ExtentIdle
  /\ BilevelIdle
  /\ PfmIdle
  /\ TiffAlphaIdle
  /\ QuantumIdle
  /\ PsIdle
  /\ TypeIdle
  /\ RegistryIdle
  /\ TileIdle
  /\ PpmIdle
  /\ RgbaIdle
  /\ HandlersIdle
  /\ format = "none"
  /\ rows = 1
  /\ ksemaphore = NoSemaphore
  /\ kholder = [s \in 1..KeyCalls |-> 0]
  /\ kallocated = 0
  /\ kheld = [t \in KeyThreads |-> NoSemaphore]
  /\ kinstantiate = MagickFalse
  /\ kexists = FALSE
  /\ kop = [t \in KeyThreads |-> "none"]
  /\ kpc = [t \in KeyThreads |-> "idle"]
  /\ kcalls = 0
  /\ kunheld = FALSE
  /\ krepeated = FALSE

\* A thread calls RegisterTIFFImage or UnregisterTIFFImage; the second
\* unregisters the four tags first.
KeyCall(t) ==
  /\ KeyRunning
  /\ kpc[t] = "idle"
  /\ kcalls < KeyCalls
  /\ kcalls' = kcalls + 1
  /\ \E op \in KeyOps : kop' = [kop EXCEPT ![t] = op]
  /\ kpc' = [kpc EXCEPT ![t] = "acquire"]
  /\ UNCHANGED <<ksemaphore, kholder, kallocated, kheld, kinstantiate,
                 kexists, kunheld, krepeated>>
  /\ UNCHANGED notKey

\* AcquireSemaphoreInfo(&tiff_semaphore): allocate the semaphore if the
\* pointer is NULL, then lock it.
AcquireSemaphoreInfo(t) ==
  /\ KeyRunning
  /\ kpc[t] = "acquire"
  /\ LET fresh == ksemaphore = NoSemaphore
         sem == IF fresh THEN kallocated + 1 ELSE ksemaphore
     IN /\ kholder[sem] = 0
        /\ ksemaphore' = sem
        /\ kallocated' = (IF fresh THEN kallocated + 1 ELSE kallocated)
        /\ kholder' = [kholder EXCEPT ![sem] = t]
        /\ kheld' = [kheld EXCEPT ![t] = sem]
  /\ kpc' = [kpc EXCEPT ![t] = "test"]
  /\ UNCHANGED <<kinstantiate, kexists, kop, kcalls, kunheld, krepeated>>
  /\ UNCHANGED notKey

\* if (instantiate_key == MagickFalse) of RegisterTIFFImage and
\* if (instantiate_key != MagickFalse) of UnregisterTIFFImage.
KeyTest(t) ==
  /\ KeyRunning
  /\ kpc[t] = "test"
  /\ kpc' = [kpc EXCEPT ![t] =
       IF kop[t] = "RegisterTIFFImage"
         THEN (IF kinstantiate = MagickFalse THEN "create" ELSE "relinquish")
         ELSE (IF kinstantiate # MagickFalse THEN "delete" ELSE "clear")]
  /\ kunheld' = (kunheld \/ ~HoldsSemaphore(t))
  /\ UNCHANGED <<ksemaphore, kholder, kallocated, kheld, kinstantiate,
                 kexists, kop, kcalls, krepeated>>
  /\ UNCHANGED notKey

\* MagickCreateThreadKey(&tiff_exception).
MagickCreateThreadKey(t) ==
  /\ KeyRunning
  /\ kpc[t] = "create"
  /\ kexists' = TRUE
  /\ krepeated' = (krepeated \/ kexists)
  /\ kpc' = [kpc EXCEPT ![t] = "set"]
  /\ UNCHANGED <<ksemaphore, kholder, kallocated, kheld, kinstantiate, kop,
                 kcalls, kunheld>>
  /\ UNCHANGED notKey

\* instantiate_key=MagickTrue;
KeySet(t) ==
  /\ KeyRunning
  /\ kpc[t] = "set"
  /\ kinstantiate' = MagickTrue
  /\ kunheld' = (kunheld \/ ~HoldsSemaphore(t))
  /\ kpc' = [kpc EXCEPT ![t] = "relinquish"]
  /\ UNCHANGED <<ksemaphore, kholder, kallocated, kheld, kexists, kop,
                 kcalls, krepeated>>
  /\ UNCHANGED notKey

\* MagickDeleteThreadKey(tiff_exception).
MagickDeleteThreadKey(t) ==
  /\ KeyRunning
  /\ kpc[t] = "delete"
  /\ kexists' = FALSE
  /\ krepeated' = (krepeated \/ ~kexists)
  /\ kpc' = [kpc EXCEPT ![t] = "clear"]
  /\ UNCHANGED <<ksemaphore, kholder, kallocated, kheld, kinstantiate, kop,
                 kcalls, kunheld>>
  /\ UNCHANGED notKey

\* instantiate_key=MagickFalse;
KeyClear(t) ==
  /\ KeyRunning
  /\ kpc[t] = "clear"
  /\ kinstantiate' = MagickFalse
  /\ kunheld' = (kunheld \/ ~HoldsSemaphore(t))
  /\ kpc' = [kpc EXCEPT ![t] = "relinquish"]
  /\ UNCHANGED <<ksemaphore, kholder, kallocated, kheld, kexists, kop,
                 kcalls, krepeated>>
  /\ UNCHANGED notKey

\* RelinquishSemaphoreInfo(tiff_semaphore): unlocks the semaphore the
\* pointer names now. A NoSemaphore pointer fails the assertion of the function;
\* unlocking a semaphore another thread holds is undefined, and either
\* unlocks it or leaves it locked.
RelinquishSemaphoreInfo(t) ==
  /\ KeyRunning
  /\ kpc[t] = "relinquish"
  /\ IF ksemaphore = NoSemaphore
       THEN /\ kpc' = [kpc EXCEPT ![t] = "aborted"]
            /\ UNCHANGED kholder
       ELSE /\ kpc' = [kpc EXCEPT ![t] =
                 IF kop[t] = "RegisterTIFFImage" THEN "idle" ELSE "destroy"]
            /\ \/ kholder' = [kholder EXCEPT ![ksemaphore] = 0]
               \/ /\ kholder[ksemaphore] # t
                  /\ UNCHANGED kholder
  /\ kheld' = [kheld EXCEPT ![t] = NoSemaphore]
  /\ UNCHANGED <<ksemaphore, kallocated, kinstantiate, kexists, kop, kcalls,
                 kunheld, krepeated>>
  /\ UNCHANGED notKey

\* DestroySemaphoreInfo(&tiff_semaphore): frees the semaphore and sets the
\* pointer to NULL, whoever holds it; a NULL pointer fails the assertion.
DestroySemaphoreInfo(t) ==
  /\ KeyRunning
  /\ kpc[t] = "destroy"
  /\ IF ksemaphore = NoSemaphore
       THEN kpc' = [kpc EXCEPT ![t] = "aborted"]
       ELSE kpc' = [kpc EXCEPT ![t] = "idle"]
  /\ ksemaphore' = NoSemaphore
  /\ UNCHANGED <<kholder, kallocated, kheld, kinstantiate, kexists, kop,
                 kcalls, kunheld, krepeated>>
  /\ UNCHANGED notKey

NextKey ==
  \E t \in KeyThreads :
    \/ KeyCall(t)
    \/ AcquireSemaphoreInfo(t)
    \/ KeyTest(t)
    \/ MagickCreateThreadKey(t)
    \/ KeySet(t)
    \/ MagickDeleteThreadKey(t)
    \/ KeyClear(t)
    \/ RelinquishSemaphoreInfo(t)
    \/ DestroySemaphoreInfo(t)

SpecKey == InitKey /\ [][NextKey]_vars

\* C30: whatever the calls and their interleaving, instantiate_key is tested
\* and changed only by a thread that holds tiff_semaphore, the key is never
\* created while it exists nor deleted while it does not, and outside the
\* guarded sections instantiate_key is true exactly when the key exists.
C30_KeyGuarded ==
  /\ ~kunheld
  /\ ~krepeated
  /\ (\A t \in KeyThreads : kpc[t] \notin KeySection) =>
       (kinstantiate # MagickFalse <=> kexists)

=============================================================================
